---------------------------- MODULE Spec2Model ----------------------------
(***************************************************************************)
(* A model of the HP OMEN four-zone RGB keyboard driver with animation     *)
(* support (src/unnamed/part_001, the hp-wmi.c variant with the animation  *)
(* engine) and of the basic driver (src/src/hp-wmi.c).                     *)
(*                                                                         *)
(* Command handlers (the sysfs store callbacks) are single actions.  Spec  *)
(* runs them with whole animation frames in between; SpecFaulty runs them  *)
(* in an unreliable environment; SpecRace splits the timer callback and    *)
(* the deferred work item at the points where another context can run in   *)
(* between.                                                                *)
(* Integers: every value of the model stays far below 2^31, the driver's   *)
(* int width, so no operation of the model wraps.                          *)
(***************************************************************************)
EXTENDS Integers, Sequences, FiniteSets, TLC

(***************************************************************************)
(* Bounds of the model                                                     *)
(***************************************************************************)
\* number of palette colors the command inputs draw from
NumColors == 2
\* number of commands in one behaviour
MaxOps == 2
\* number of commands in one behaviour of SpecRace
MaxRaceOps == 1
\* number of clock advances in one behaviour
MaxTicks == 2
\* number of environment faults (transport or storage) in one behaviour
MaxFaults == 1
MaxElapsed == 320
MaxDigits == 7

(***************************************************************************)
(* Program constants                                                       *)
(***************************************************************************)
ZONE_COUNT == 4
FRAME_SIZE == 128
ZONE_BASE == 25
ANIMATION_TIMER_INTERVAL_MS == 50
ANIMATION_SPEED_MIN == 1
ANIMATION_SPEED_MAX == 10
ANIMATION_SPEED_DEFAULT == 1
ANIMATION_STATIC == 0
ANIMATION_BREATHING == 1
ANIMATION_RAINBOW == 2
ANIMATION_WAVE == 3
ANIMATION_PULSE == 4
ANIMATION_CHASE == 5
ANIMATION_SPARKLE == 6
ANIMATION_CANDLE == 7
ANIMATION_AURORA == 8
ANIMATION_DISCO == 9
ANIMATION_COUNT == 10
HPWMI_RET_INVALID_PARAMETERS == 5
EINVAL == 22
MAX_RGB == 16777215
\* kernel tick rate: jiffies per second (1000: one jiffy is one millisecond)
HZ == 1000

Zones == 0 .. (ZONE_COUNT - 1)
Byte == 0 .. 255

(***************************************************************************)
(* Colors: struct color_platform, as a record of its three channels        *)
(***************************************************************************)
RGB(r, g, b) == [red |-> r, green |-> g, blue |-> b]
Black == RGB(0, 0, 0)

\* (channel * percent) / 100 with C's truncating division (operands >= 0)
ScaleChannelHalved(ch, percent) == (ch * percent) \div 200
ScaleChannel(ch, percent) == (ch * percent) \div 100

ScaleColor(c, percent) ==
    RGB(ScaleChannel(c.red, percent), ScaleChannel(c.green, percent),
        ScaleChannel(c.blue, percent))

apply_brightness_to_color_rounded(c, b) ==
    RGB((c.red * b + 50) \div 100, (c.green * b + 50) \div 100,
        (c.blue * b + 50) \div 100)
\* apply_brightness_to_color(color) with global_brightness = b
apply_brightness_to_color(c, b) == ScaleColor(c, b)

(***************************************************************************)
(* The 128-byte frame and the zones' places in it                          *)
(***************************************************************************)
ZoneOffsetPacked(z) == ZONE_BASE + z * 2
ZoneOffset(z) == ZONE_BASE + z * 3

\* fourzone_update_led, HPWMI_WRITE branch: the three stores into state[]
PutZoneBGR(state, z, c) ==
    [state EXCEPT ![ZoneOffset(z) + 0] = c.blue,
                  ![ZoneOffset(z) + 1] = c.green,
                  ![ZoneOffset(z) + 2] = c.red]
PutZone(state, z, c) ==
    [state EXCEPT ![ZoneOffset(z) + 0] = c.red,
                  ![ZoneOffset(z) + 1] = c.green,
                  ![ZoneOffset(z) + 2] = c.blue]

\* fourzone_update_led, HPWMI_READ branch: the three loads from state[]
GetZone(state, z) ==
    RGB(state[ZoneOffset(z) + 0], state[ZoneOffset(z) + 1],
        state[ZoneOffset(z) + 2])

(***************************************************************************)
(* Text written to an endpoint: a sequence of one-character strings.       *)
(* The palette and the other inputs of the model are such texts.           *)
(***************************************************************************)
HexDigits ==
    << "0", "1", "2", "3", "4", "5", "6", "7", "8", "9",
       "A", "B", "C", "D", "E", "F" >>
LowerHexDigits ==
    << "0", "1", "2", "3", "4", "5", "6", "7", "8", "9",
       "a", "b", "c", "d", "e", "f" >>

\* the value of a character as a digit of the base, or -1
DigitValue(ch, base) ==
    LET hits == {i \in 1 .. base : HexDigits[i] = ch \/ LowerHexDigits[i] = ch}
    IN  IF hits = {} THEN -1 ELSE (CHOOSE i \in hits : TRUE) - 1

\* the longest prefix of digits of s from position i on: <<value, next position>>
RECURSIVE ParseDigits(_, _, _, _)
ParseDigits(s, i, base, acc) ==
    IF i > Len(s) \/ DigitValue(s[i], base) < 0
    THEN << acc, i >>
    ELSE ParseDigits(s, i + 1, base, acc * base + DigitValue(s[i], base))

\* kstrtoul(buf, base, &res): an optional "+", for base 16 an optional "0x",
\* at least one digit, an optional final newline and nothing else.
\* (Texts of the model have at most 9 digits, so overflow, -ERANGE, is not
\* reached.)
kstrtoul(s, base) ==
    LET p0 == IF Len(s) >= 1 /\ s[1] = "+" THEN 2 ELSE 1
        p1 == IF /\ base = 16
                 /\ Len(s) >= p0 + 2
                 /\ s[p0] = "0"
                 /\ s[p0 + 1] \in {"x", "X"}
                 /\ DigitValue(s[p0 + 2], 16) >= 0
              THEN p0 + 2 ELSE p0
        r  == ParseDigits(s, p1, base, 0)
        p2 == IF r[2] <= Len(s) /\ s[r[2]] = "\n" THEN r[2] + 1 ELSE r[2]
    IN  IF r[2] = p1 THEN [err |-> -EINVAL, val |-> 0]
        ELSE IF p2 <= Len(s) THEN [err |-> -EINVAL, val |-> 0]
        ELSE [err |-> 0, val |-> r[1]]

\* the union color_union of parse_rgb on a little-endian build: the int's
\* byte 0 is cp.blue, byte 1 cp.green, byte 2 cp.red
RepackageSwapped(rgb) ==
    RGB(rgb % 256, (rgb \div 256) % 256, (rgb \div 65536) % 256)
Repackage(rgb) ==
    RGB((rgb \div 65536) % 256, (rgb \div 256) % 256, rgb % 256)

\* parse_rgb(buf, zone): [err, colors]; colors is meaningful when err = 0
parse_rgb(buf) ==
    LET k == kstrtoul(buf, 16)
    IN  IF k.err # 0 THEN [err |-> k.err, colors |-> Black]
        ELSE IF k.val > MAX_RGB THEN [err |-> -EINVAL, colors |-> Black]
        ELSE [err |-> 0, colors |-> Repackage(k.val)]

(***************************************************************************)
(* The transport and the protocol codec                                    *)
(***************************************************************************)
\* what wmi_evaluate_method hands back
OkResponse == [kind |-> "buffer", code |-> 0]
FaultResponses ==
    { [kind |-> "absent", code |-> 0],
      [kind |-> "buffer", code |-> HPWMI_RET_INVALID_PARAMETERS] }

\* The environment of one operation: the transport call (counted from 1) that
\* fails and how, at = 0 for none; and whether storage can be written.
NoFault == [at |-> 0, resp |-> OkResponse, writable |-> TRUE]
StorageFault == [at |-> 0, resp |-> OkResponse, writable |-> FALSE]
\* a reliable transport: only storage may fail
StorageEnvs(faultsLeft) ==
    {NoFault} \cup (IF faultsLeft = 0 THEN {} ELSE {StorageFault})
\* also one of the first maxCalls transport calls may fail
Envs(maxCalls, faultsLeft) ==
    StorageEnvs(faultsLeft) \cup
    (IF faultsLeft = 0 THEN {}
     ELSE [at : 1 .. maxCalls, resp : FaultResponses, writable : {TRUE}])
IsFault(env) == env # NoFault
Response(env, n) == IF env.at = n THEN env.resp ELSE OkResponse

encode_outsize_for_pvsz_clamped(outsize) ==
    IF outsize > 1024 THEN 5
    ELSE IF outsize > 128 THEN 4
    ELSE IF outsize > 4 THEN 3
    ELSE IF outsize > 0 THEN 2
    ELSE 1
encode_outsize_for_pvsz(outsize) ==
    IF outsize > 4096 THEN -EINVAL
    ELSE IF outsize > 1024 THEN 5
    ELSE IF outsize > 128 THEN 4
    ELSE IF outsize > 4 THEN 3
    ELSE IF outsize > 0 THEN 2
    ELSE 1

\* hp_wmi_perform_query's return value for a transport response
hp_wmi_perform_query(resp, insize, outsize) ==
    IF encode_outsize_for_pvsz(outsize) < 0
    THEN encode_outsize_for_pvsz(outsize)
    ELSE IF insize > FRAME_SIZE THEN -EINVAL
    ELSE IF resp.kind = "absent" THEN -EINVAL
    ELSE IF resp.kind # "buffer" THEN -EINVAL
    ELSE resp.code

(***************************************************************************)
(* The driver's state as one record, on which the C functions are        *)
(* operators from record to record:                                        *)
(*   frame       the firmware's 128-byte frame                             *)
(*   zone        zone_data[].colors                                        *)
(*   orig        original_colors[].colors                                  *)
(*   brightness  global_brightness      mode     current_animation         *)
(*   speed       animation_speed        active   animation_active          *)
(*   start       animation_start_time                                      *)
(*   pending     animation_timer is armed, expires: at which jiffies       *)
(*   disk        the file /var/lib/omen-rgb-keyboard/state                 *)
(*   n           transport calls made so far by the running operation      *)
(*   ret         the return value of the last function called              *)
(*   ok          the handler reached its final "return count"              *)
(*   log         history: the frame writes of the running operation        *)
(***************************************************************************)
GetRet(m, env) ==
    hp_wmi_perform_query(Response(env, m.n + 1), FRAME_SIZE, FRAME_SIZE)
SetRet(m, env) ==
    hp_wmi_perform_query(Response(env, m.n + 2), FRAME_SIZE, FRAME_SIZE)

\* history: a frame write that succeeded, with the color it left in the frame
\* and the zone's Original Color and the brightness at that moment
Written(m, z) ==
    [z |-> z, color |-> GetZone(PutZone(m.frame, z, m.zone[z]), z),
     orig |-> m.orig[z], brightness |-> m.brightness]

fourzone_update_led_write(m, z, env) ==
    IF GetRet(m, env) # 0
    THEN [m EXCEPT !.n = @ + 1,
                   !.ret = IF GetRet(m, env) <= 0 THEN GetRet(m, env) ELSE -EINVAL]
    ELSE [m EXCEPT !.n = @ + 2,
                   !.ret = SetRet(m, env),
                   !.frame = IF SetRet(m, env) = 0
                             THEN PutZone(m.frame, z, m.zone[z]) ELSE @,
                   !.log = IF SetRet(m, env) = 0
                           THEN Append(@, Written(m, z)) ELSE @]

fourzone_update_led_read(m, z, env) ==
    IF GetRet(m, env) # 0
    THEN [m EXCEPT !.n = @ + 1,
                   !.ret = IF GetRet(m, env) <= 0 THEN GetRet(m, env) ELSE -EINVAL]
    ELSE [m EXCEPT !.n = @ + 1,
                   !.ret = 0,
                   !.zone[z] = GetZone(m.frame, z)]

\* msecs_to_jiffies(m): milliseconds rounded up to whole jiffies
msecs_to_jiffies(m) == (m * HZ + 999) \div 1000

\* stop_animation's loop body for one zone (the write's result is ignored)
RestoreZone(d, z, env) ==
    fourzone_update_led_write(
        [d EXCEPT !.zone[z] = apply_brightness_to_color(d.orig[z], d.brightness)],
        z, env)

stop_animation_norestore(d, env) ==
    [d EXCEPT !.active = FALSE, !.pending = FALSE]
stop_animation_keeptimer(d, env) ==
    RestoreZone(RestoreZone(RestoreZone(RestoreZone(
        [d EXCEPT !.active = FALSE], 0, env), 1, env), 2, env), 3, env)
stop_animation_keepactive(d, env) ==
    RestoreZone(RestoreZone(RestoreZone(RestoreZone(
        [d EXCEPT !.pending = FALSE], 0, env), 1, env), 2, env), 3, env)
stop_animation(d, env) ==
    RestoreZone(RestoreZone(RestoreZone(RestoreZone(
        [d EXCEPT !.active = FALSE, !.pending = FALSE], 0, env), 1, env), 2, env), 3, env)

\* start_animation at jiffies = now.  (timer_setup re-initialises the timer,
\* mod_timer arms it.)
start_animation_keepstart(d, now) ==
    IF d.mode = ANIMATION_STATIC
    THEN [d EXCEPT !.active = FALSE]
    ELSE [d EXCEPT !.active = TRUE,
                   !.pending = TRUE,
                   !.expires = now + msecs_to_jiffies(ANIMATION_TIMER_INTERVAL_MS)]
start_animation(d, now) ==
    IF d.mode = ANIMATION_STATIC
    THEN [d EXCEPT !.active = FALSE]
    ELSE [d EXCEPT !.start = now,
                   !.active = TRUE,
                   !.pending = TRUE,
                   !.expires = now + msecs_to_jiffies(ANIMATION_TIMER_INTERVAL_MS)]

(***************************************************************************)
(* Persistence: struct animation_state in the state file                   *)
(***************************************************************************)
\* sizeof(struct animation_state): three ints and four packed 3-byte colors
STATE_SIZE == 24
NoFile == [present |-> FALSE]
StateFile(mode, speed, brightness, colors) ==
    [present |-> TRUE, size |-> STATE_SIZE, mode |-> mode, speed |-> speed,
     brightness |-> brightness, colors |-> colors]

\* save_animation_state: nothing is written when the file cannot be opened
save_animation_state(d, env) ==
    IF env.writable
    THEN [d EXCEPT !.disk = StateFile(d.mode, d.speed, d.brightness, d.orig)]
    ELSE d

load_animation_state_strictspeed(d) ==
    IF ~d.disk.present THEN d
    ELSE IF d.disk.size < STATE_SIZE THEN d
    ELSE [d EXCEPT
            !.mode = IF d.disk.mode >= 0 /\ d.disk.mode < ANIMATION_COUNT
                     THEN d.disk.mode ELSE @,
            !.speed = IF /\ d.disk.speed >= ANIMATION_SPEED_MIN
                         /\ d.disk.speed < ANIMATION_SPEED_MAX
                      THEN d.disk.speed ELSE @,
            !.brightness = IF d.disk.brightness >= 0 /\ d.disk.brightness <= 100
                           THEN d.disk.brightness ELSE @,
            !.orig = d.disk.colors]
load_animation_state_allornothing(d) ==
    IF ~d.disk.present THEN d
    ELSE IF d.disk.size < STATE_SIZE THEN d
    ELSE IF \/ d.disk.mode < 0 \/ d.disk.mode >= ANIMATION_COUNT
            \/ d.disk.speed < ANIMATION_SPEED_MIN
            \/ d.disk.speed > ANIMATION_SPEED_MAX
            \/ d.disk.brightness < 0 \/ d.disk.brightness > 100
    THEN d
    ELSE [d EXCEPT !.mode = d.disk.mode, !.speed = d.disk.speed,
                   !.brightness = d.disk.brightness, !.orig = d.disk.colors]
\* load_animation_state
load_animation_state(d) ==
    IF ~d.disk.present THEN d
    ELSE IF d.disk.size < STATE_SIZE THEN d
    ELSE [d EXCEPT
            !.mode = IF d.disk.mode >= 0 /\ d.disk.mode < ANIMATION_COUNT
                     THEN d.disk.mode ELSE @,
            !.speed = IF /\ d.disk.speed >= ANIMATION_SPEED_MIN
                         /\ d.disk.speed <= ANIMATION_SPEED_MAX
                      THEN d.disk.speed ELSE @,
            !.brightness = IF d.disk.brightness >= 0 /\ d.disk.brightness <= 100
                           THEN d.disk.brightness ELSE @,
            !.orig = d.disk.colors]

(***************************************************************************)
(* The command handlers of the animation driver (part_001)                 *)
(***************************************************************************)
\* zone_set stopping the animation before it looks at the text, to test the
\* properties
zone_set_stopfirst(d, z, buf, env) ==
    LET p == parse_rgb(buf)
        d0 == stop_animation(d, env)
    IN
    IF p.err # 0 THEN [d0 EXCEPT !.ret = p.err]
    ELSE
      LET d1 == [d0 EXCEPT !.zone[z] = p.colors]
          d2 == [d1 EXCEPT !.mode = ANIMATION_STATIC,
                           !.orig[z] = d1.zone[z],
                           !.zone[z] = ScaleColor(d1.zone[z], d1.brightness)]
          d3 == fourzone_update_led_write(d2, z, env)
      IN  IF d3.ret # 0 THEN d3
          ELSE [save_animation_state(d3, env) EXCEPT !.ret = Len(buf), !.ok = TRUE]

\* zone_set for the matched zone z.  parse_rgb stores the parsed color in
\* zone_data[z].colors; stop_animation then runs over all four zones.
zone_set(d, z, buf, env) ==
    LET p == parse_rgb(buf) IN
    IF p.err # 0 THEN [d EXCEPT !.ret = p.err]
    ELSE
      LET d1 == stop_animation([d EXCEPT !.zone[z] = p.colors], env)
          d2 == [d1 EXCEPT !.mode = ANIMATION_STATIC,
                           !.orig[z] = d1.zone[z],
                           !.zone[z] = ScaleColor(d1.zone[z], d1.brightness)]
          d3 == fourzone_update_led_write(d2, z, env)
      IN  IF d3.ret # 0 THEN d3
          ELSE [save_animation_state(d3, env) EXCEPT !.ret = Len(buf), !.ok = TRUE]

AllZonesFromZoneOnly(d, z, c, env) ==
    fourzone_update_led_write(
        [d EXCEPT !.orig[z] = c, !.zone[z] = ScaleColor(c, d.brightness)], z, env)
\* all_set's loop from zone z on: the first failing write ends it
RECURSIVE AllZonesFrom(_, _, _, _)
AllZonesFrom(d, z, c, env) ==
    IF z >= ZONE_COUNT THEN d
    ELSE
      LET d1 == fourzone_update_led_write(
                    [d EXCEPT !.orig[z] = c,
                              !.zone[z] = ScaleColor(c, d.brightness)], z, env)
      IN  IF d1.ret # 0 THEN d1 ELSE AllZonesFrom(d1, z + 1, c, env)

all_set(d, buf, env) ==
    LET p == parse_rgb(buf) IN
    IF p.err # 0 THEN [d EXCEPT !.ret = p.err]
    ELSE
      LET d1 == [stop_animation(d, env) EXCEPT !.mode = ANIMATION_STATIC, !.ret = 0]
          d2 == AllZonesFrom(d1, 0, p.colors, env)
      IN  IF d2.ret # 0 THEN d2
          ELSE [save_animation_state(d2, env) EXCEPT !.ret = Len(buf), !.ok = TRUE]

\* brightness_set's loop from zone z on
RECURSIVE BrightnessZonesFrom(_, _, _, _)
BrightnessZonesFrom(d, z, level, env) ==
    IF z >= ZONE_COUNT THEN d
    ELSE
      LET d1 == fourzone_update_led_read(d, z, env)
          d2 == fourzone_update_led_write(
                    [d1 EXCEPT !.orig[z] = d1.zone[z],
                               !.zone[z] = ScaleColor(d1.zone[z], level)], z, env)
      IN  IF d1.ret # 0 THEN d1
          ELSE IF d2.ret # 0 THEN d2
          ELSE BrightnessZonesFrom(d2, z + 1, level, env)

\* brightness_set without the clamp, to test the properties
brightness_set_unclamped(d, buf, env) ==
    LET k == kstrtoul(buf, 10) IN
    IF k.err # 0 THEN [d EXCEPT !.ret = -EINVAL]
    ELSE
      LET level == k.val
          d1 == BrightnessZonesFrom([d EXCEPT !.brightness = level, !.ret = 0],
                                    0, level, env)
      IN  IF d1.ret # 0 THEN d1
          ELSE [save_animation_state(d1, env) EXCEPT !.ret = Len(buf), !.ok = TRUE]

brightness_set(d, buf, env) ==
    LET k == kstrtoul(buf, 10) IN
    IF k.err # 0 THEN [d EXCEPT !.ret = -EINVAL]
    ELSE
      LET level == IF k.val > 100 THEN 100 ELSE k.val
          d1 == BrightnessZonesFrom([d EXCEPT !.brightness = level, !.ret = 0],
                                    0, level, env)
      IN  IF d1.ret # 0 THEN d1
          ELSE [save_animation_state(d1, env) EXCEPT !.ret = Len(buf), !.ok = TRUE]

(***************************************************************************)
(* Animation math                                                          *)
(***************************************************************************)
\* C's division of a possibly negative int by a positive one: towards zero
TruncDiv(a, b) == IF a >= 0 THEN a \div b ELSE -((-a) \div b)
Abs(a) == IF a >= 0 THEN a ELSE -a
\* a store into a u8 field
U8(x) == x % 256

simple_sin_floored(angle_degrees) ==
    LET a == angle_degrees % 360
    IN  IF a < 90 THEN (a * 100) \div 90
        ELSE IF a < 180 THEN ((180 - a) * 100) \div 90
        ELSE IF a < 270 THEN (-((a - 180) * 100)) \div 90
        ELSE (-((360 - a) * 100)) \div 90
simple_sin(angle_degrees) ==
    LET r == IF angle_degrees >= 0 THEN angle_degrees % 360
             ELSE -((-angle_degrees) % 360)
        a == IF r < 0 THEN r + 360 ELSE r
    IN  IF a < 90 THEN (a * 100) \div 90
        ELSE IF a < 180 THEN ((180 - a) * 100) \div 90
        ELSE IF a < 270 THEN TruncDiv(-((a - 180) * 100), 90)
        ELSE TruncDiv(-((360 - a) * 100), 90)

hsv_to_rgb(h, s, v) ==
    LET c == (v * s) \div 100
        x == (c * (60 - Abs((h % 120) - 60))) \div 60
        m == v - c
        r == IF h < 60 THEN c ELSE IF h < 120 THEN x ELSE IF h < 240 THEN 0
             ELSE IF h < 300 THEN x ELSE c
        g == IF h < 60 THEN x ELSE IF h < 180 THEN c ELSE IF h < 240 THEN x ELSE 0
        b == IF h < 120 THEN 0 ELSE IF h < 180 THEN x ELSE IF h < 300 THEN c ELSE x
    IN  RGB(U8(((r + m) * 255) \div 100), U8(((g + m) * 255) \div 100),
            U8(((b + m) * 255) \div 100))

\* colors[zone] = base with every channel scaled to intensity percent
Dim(c, intensity) ==
    RGB(U8(TruncDiv(c.red * intensity, 100)), U8(TruncDiv(c.green * intensity, 100)),
        U8(TruncDiv(c.blue * intensity, 100)))
DivColor(c, k) == RGB(c.red \div k, c.green \div k, c.blue \div k)

\* The generators: the colors[] array each hands to
\* update_all_zones_with_colors, for elapsed = jiffies - animation_start_time.
animation_breathing(elapsed, orig, speed) ==
    LET cycle_time == msecs_to_jiffies(2000 \div speed)
        cycle_pos == elapsed % cycle_time
        angle == (360 * cycle_pos) \div cycle_time
        intensity == 50 + TruncDiv(50 * simple_sin(angle), 100)
    IN  [z \in Zones |-> Dim(orig[z], intensity)]

animation_rainbow(elapsed, orig, speed) ==
    LET cycle_time == msecs_to_jiffies(3000 \div speed)
        cycle_pos == elapsed % cycle_time
    IN  [z \in Zones |->
            hsv_to_rgb(((360 * cycle_pos) \div cycle_time + z * 90) % 360, 100, 100)]

animation_wave(elapsed, orig, speed) ==
    LET cycle_time == msecs_to_jiffies(2000 \div speed)
        cycle_pos == elapsed % cycle_time
    IN  [z \in Zones |->
            LET wave_pos == ((cycle_pos * 4) \div cycle_time + z) % 4
                angle == (360 * wave_pos) \div 4
                intensity == 30 + (70 * (100 + simple_sin(angle))) \div 200
            IN  Dim(orig[z], intensity)]

animation_pulse(elapsed, orig, speed) ==
    LET cycle_time == msecs_to_jiffies(1500 \div speed)
        cycle_pos == elapsed % cycle_time
        angle == (360 * cycle_pos) \div cycle_time
        intensity == 20 + (80 * (100 + simple_sin(angle))) \div 200
    IN  [z \in Zones |-> Dim(orig[z], intensity)]

animation_chase(elapsed, orig, speed) ==
    LET cycle_time == msecs_to_jiffies(1200 \div speed)
        cycle_pos == elapsed % cycle_time
        active_zone == (cycle_pos * ZONE_COUNT) \div cycle_time
    IN  [z \in Zones |-> IF z = active_zone THEN orig[0] ELSE DivColor(orig[0], 6)]

animation_sparkle(elapsed, orig, speed) ==
    LET cycle_time == msecs_to_jiffies(3000 \div speed)
    IN  [z \in Zones |->
            LET sparkle_offset == (elapsed + z * 800) % cycle_time
                sparkle_duration == cycle_time \div 8
            IN  IF sparkle_offset < sparkle_duration
                THEN RGB(255, 255, 255) ELSE DivColor(orig[0], 8)]

animation_candle(elapsed, orig, speed) ==
    LET cycle_time == msecs_to_jiffies(100 \div speed)
        cycle_pos == elapsed % cycle_time
    IN  [z \in Zones |->
            LET flicker == (cycle_pos + z * 500) % cycle_time
                intensity == 60 + (40 * flicker) \div cycle_time
            IN  RGB(U8((255 * intensity) \div 100), U8((150 * intensity) \div 100),
                    U8((50 * intensity) \div 100))]

animation_aurora(elapsed, orig, speed) ==
    LET cycle_time == msecs_to_jiffies(4000 \div speed)
        cycle_pos == elapsed % cycle_time
    IN  [z \in Zones |->
            LET wave_pos == (cycle_pos * 2 + z * 1000) % cycle_time
                intensity ==
                    30 + (70 * (100 + simple_sin((360 * wave_pos) \div cycle_time)))
                         \div 200
            IN  RGB(U8((20 * intensity) \div 100), U8((200 * intensity) \div 100),
                    U8((180 * intensity) \div 100))]

animation_disco_fixedcycle(elapsed, orig, speed) ==
    LET cycle_time == msecs_to_jiffies(300)
        cycle_pos == elapsed % cycle_time
    IN  IF cycle_pos < cycle_time \div 2
        THEN [z \in Zones |->
                CASE z = 0 -> RGB(255, 0, 0)
                  [] z = 1 -> RGB(0, 255, 0)
                  [] z = 2 -> RGB(0, 0, 255)
                  [] z = 3 -> RGB(255, 0, 255)]
        ELSE [z \in Zones |-> Black]
animation_disco(elapsed, orig, speed) ==
    LET cycle_time == msecs_to_jiffies(300 \div speed)
        cycle_pos == elapsed % cycle_time
    IN  IF cycle_pos < cycle_time \div 2
        THEN [z \in Zones |->
                CASE z = 0 -> RGB(255, 0, 0)
                  [] z = 1 -> RGB(0, 255, 0)
                  [] z = 2 -> RGB(0, 0, 255)
                  [] z = 3 -> RGB(255, 0, 255)]
        ELSE [z \in Zones |-> Black]

\* animation_work_func's switch: the colors[] of the frame for the mode
FrameColors(mode, elapsed, orig, speed) ==
    CASE mode = ANIMATION_BREATHING -> animation_breathing(elapsed, orig, speed)
      [] mode = ANIMATION_RAINBOW -> animation_rainbow(elapsed, orig, speed)
      [] mode = ANIMATION_WAVE -> animation_wave(elapsed, orig, speed)
      [] mode = ANIMATION_PULSE -> animation_pulse(elapsed, orig, speed)
      [] mode = ANIMATION_CHASE -> animation_chase(elapsed, orig, speed)
      [] mode = ANIMATION_SPARKLE -> animation_sparkle(elapsed, orig, speed)
      [] mode = ANIMATION_CANDLE -> animation_candle(elapsed, orig, speed)
      [] mode = ANIMATION_AURORA -> animation_aurora(elapsed, orig, speed)
      [] mode = ANIMATION_DISCO -> animation_disco(elapsed, orig, speed)

\* The same generators before their stores into the u8 channels: the cycle
\* length, the intensities computed and, per zone, the three int values that
\* are assigned to colors[zone].red, .green, .blue.
Channels(c) == << c.red, c.green, c.blue >>
DimMath(c, intensity) ==
    << TruncDiv(c.red * intensity, 100), TruncDiv(c.green * intensity, 100),
       TruncDiv(c.blue * intensity, 100) >>
hsv_to_rgb_math(h, s, v) ==
    LET c == TruncDiv(v * s, 100)
        x == TruncDiv(c * (60 - Abs((h % 120) - 60)), 60)
        m == v - c
        r == IF h < 60 THEN c ELSE IF h < 120 THEN x ELSE IF h < 240 THEN 0
             ELSE IF h < 300 THEN x ELSE c
        g == IF h < 60 THEN x ELSE IF h < 180 THEN c ELSE IF h < 240 THEN x ELSE 0
        b == IF h < 120 THEN 0 ELSE IF h < 180 THEN x ELSE IF h < 300 THEN c ELSE x
    IN  << TruncDiv((r + m) * 255, 100), TruncDiv((g + m) * 255, 100),
           TruncDiv((b + m) * 255, 100) >>
Math(cycle_time, intensities, values) ==
    [cycle_time |-> cycle_time, intensity |-> intensities, value |-> values]

animation_breathing_math(elapsed, orig, speed) ==
    LET cycle_time == msecs_to_jiffies(2000 \div speed)
        cycle_pos == elapsed % cycle_time
        angle == (360 * cycle_pos) \div cycle_time
        intensity == 50 + TruncDiv(50 * simple_sin(angle), 100)
    IN  Math(cycle_time, {intensity}, [z \in Zones |-> DimMath(orig[z], intensity)])

animation_rainbow_math(elapsed, orig, speed) ==
    LET cycle_time == msecs_to_jiffies(3000 \div speed)
        cycle_pos == elapsed % cycle_time
    IN  Math(cycle_time, {},
             [z \in Zones |->
                 hsv_to_rgb_math(((360 * cycle_pos) \div cycle_time + z * 90) % 360,
                                 100, 100)])

WaveIntensity(cycle_pos, cycle_time, z) ==
    LET wave_pos == ((cycle_pos * 4) \div cycle_time + z) % 4
        angle == (360 * wave_pos) \div 4
    IN  30 + TruncDiv(70 * (100 + simple_sin(angle)), 200)
animation_wave_math(elapsed, orig, speed) ==
    LET cycle_time == msecs_to_jiffies(2000 \div speed)
        cycle_pos == elapsed % cycle_time
    IN  Math(cycle_time,
             {WaveIntensity(cycle_pos, cycle_time, z) : z \in Zones},
             [z \in Zones |->
                 DimMath(orig[z], WaveIntensity(cycle_pos, cycle_time, z))])

animation_pulse_math(elapsed, orig, speed) ==
    LET cycle_time == msecs_to_jiffies(1500 \div speed)
        cycle_pos == elapsed % cycle_time
        angle == (360 * cycle_pos) \div cycle_time
        intensity == 20 + TruncDiv(80 * (100 + simple_sin(angle)), 200)
    IN  Math(cycle_time, {intensity}, [z \in Zones |-> DimMath(orig[z], intensity)])

animation_chase_math(elapsed, orig, speed) ==
    LET cycle_time == msecs_to_jiffies(1200 \div speed)
        cycle_pos == elapsed % cycle_time
        active_zone == (cycle_pos * ZONE_COUNT) \div cycle_time
    IN  Math(cycle_time, {},
             [z \in Zones |-> IF z = active_zone THEN Channels(orig[0])
                              ELSE Channels(DivColor(orig[0], 6))])

animation_sparkle_math(elapsed, orig, speed) ==
    LET cycle_time == msecs_to_jiffies(3000 \div speed)
    IN  Math(cycle_time, {},
             [z \in Zones |->
                 LET sparkle_offset == (elapsed + z * 800) % cycle_time
                     sparkle_duration == cycle_time \div 8
                 IN  IF sparkle_offset < sparkle_duration
                     THEN << 255, 255, 255 >> ELSE Channels(DivColor(orig[0], 8))])

CandleIntensityUnreduced(cycle_pos, cycle_time, z) ==
    60 + (40 * (cycle_pos + z * 500)) \div cycle_time
CandleIntensity(cycle_pos, cycle_time, z) ==
    LET flicker == (cycle_pos + z * 500) % cycle_time
    IN  60 + (40 * flicker) \div cycle_time
animation_candle_math(elapsed, orig, speed) ==
    LET cycle_time == msecs_to_jiffies(100 \div speed)
        cycle_pos == elapsed % cycle_time
    IN  Math(cycle_time,
             {CandleIntensity(cycle_pos, cycle_time, z) : z \in Zones},
             [z \in Zones |->
                 LET intensity == CandleIntensity(cycle_pos, cycle_time, z)
                 IN  << (255 * intensity) \div 100, (150 * intensity) \div 100,
                        (50 * intensity) \div 100 >>])

AuroraIntensity(cycle_pos, cycle_time, z) ==
    LET wave_pos == (cycle_pos * 2 + z * 1000) % cycle_time
    IN  30 + TruncDiv(70 * (100 + simple_sin((360 * wave_pos) \div cycle_time)), 200)
animation_aurora_math(elapsed, orig, speed) ==
    LET cycle_time == msecs_to_jiffies(4000 \div speed)
        cycle_pos == elapsed % cycle_time
    IN  Math(cycle_time,
             {AuroraIntensity(cycle_pos, cycle_time, z) : z \in Zones},
             [z \in Zones |->
                 LET intensity == AuroraIntensity(cycle_pos, cycle_time, z)
                 IN  << TruncDiv(20 * intensity, 100), TruncDiv(200 * intensity, 100),
                        TruncDiv(180 * intensity, 100) >>])

animation_disco_math(elapsed, orig, speed) ==
    LET cycle_time == msecs_to_jiffies(300 \div speed)
    IN  Math(cycle_time, {},
             [z \in Zones |-> Channels(animation_disco(elapsed, orig, speed)[z])])

FrameMath(mode, elapsed, orig, speed) ==
    CASE mode = ANIMATION_BREATHING -> animation_breathing_math(elapsed, orig, speed)
      [] mode = ANIMATION_RAINBOW -> animation_rainbow_math(elapsed, orig, speed)
      [] mode = ANIMATION_WAVE -> animation_wave_math(elapsed, orig, speed)
      [] mode = ANIMATION_PULSE -> animation_pulse_math(elapsed, orig, speed)
      [] mode = ANIMATION_CHASE -> animation_chase_math(elapsed, orig, speed)
      [] mode = ANIMATION_SPARKLE -> animation_sparkle_math(elapsed, orig, speed)
      [] mode = ANIMATION_CANDLE -> animation_candle_math(elapsed, orig, speed)
      [] mode = ANIMATION_AURORA -> animation_aurora_math(elapsed, orig, speed)
      [] mode = ANIMATION_DISCO -> animation_disco_math(elapsed, orig, speed)

\* update_all_zones_with_colors from zone z on (the writes' results are
\* ignored)
RECURSIVE UpdateZonesFrom(_, _, _, _)
UpdateZonesFrom(d, z, colors, env) ==
    IF z >= ZONE_COUNT THEN d
    ELSE UpdateZonesFrom(
             fourzone_update_led_write(
                 [d EXCEPT !.zone[z] =
                      apply_brightness_to_color(colors[z], d.brightness)],
                 z, env),
             z + 1, colors, env)
update_all_zones_with_colors_storing(d, colors, env) ==
    [UpdateZonesFrom(d, 0, colors, env) EXCEPT !.orig = colors]
update_all_zones_with_colors(d, colors, env) == UpdateZonesFrom(d, 0, colors, env)

\* animation_work_func run to its end at jiffies = now
animation_work_func(d, now, env) ==
    IF ~d.active \/ d.mode = ANIMATION_STATIC THEN d
    ELSE update_all_zones_with_colors(
             d, FrameColors(d.mode, now - d.start, d.orig, d.speed), env)

\* animation_timer_callback's test, and its mod_timer at jiffies = now
TimerRunsAlways(d) == TRUE
TimerRuns(d) == d.active /\ d.mode # ANIMATION_STATIC
animation_timer_callback(d, now) ==
    IF TimerRuns(d)
    THEN [d EXCEPT !.pending = TRUE,
                   !.expires = now + msecs_to_jiffies(ANIMATION_TIMER_INTERVAL_MS)]
    ELSE d

(***************************************************************************)
(* The animation endpoints and the driver's setup                          *)
(***************************************************************************)
mode_names ==
    << << "s", "t", "a", "t", "i", "c" >>,
       << "b", "r", "e", "a", "t", "h", "i", "n", "g" >>,
       << "r", "a", "i", "n", "b", "o", "w" >>,
       << "w", "a", "v", "e" >>,
       << "p", "u", "l", "s", "e" >>,
       << "c", "h", "a", "s", "e" >>,
       << "s", "p", "a", "r", "k", "l", "e" >>,
       << "c", "a", "n", "d", "l", "e" >>,
       << "a", "u", "r", "o", "r", "a" >>,
       << "d", "i", "s", "c", "o" >> >>

\* strncmp(buf, name, strlen(name)) == 0
HasPrefix(buf, name) ==
    /\ Len(buf) >= Len(name)
    /\ \A i \in 1 .. Len(name) : buf[i] = name[i]

\* the if/else-if chain of animation_mode_set: the matched mode, or -1
ParseMode(buf) ==
    LET hits == {k \in 1 .. ANIMATION_COUNT : HasPrefix(buf, mode_names[k])}
    IN  IF hits = {} THEN -1
        ELSE (CHOOSE k \in hits : \A j \in hits : k <= j) - 1

animation_mode_set(d, buf, now, env) ==
    LET new_mode == ParseMode(buf) IN
    IF new_mode < 0 THEN [d EXCEPT !.ret = -EINVAL]
    ELSE
      LET d1 == [stop_animation(d, env) EXCEPT !.mode = new_mode]
          d2 == IF new_mode # ANIMATION_STATIC
                THEN start_animation(d1, now) ELSE d1
      IN  [save_animation_state(d2, env) EXCEPT !.ret = Len(buf), !.ok = TRUE]

animation_speed_set_stoponly(d, buf, now, env) ==
    LET k == kstrtoul(buf, 10) IN
    IF k.err # 0 THEN [d EXCEPT !.ret = k.err]
    ELSE IF k.val < ANIMATION_SPEED_MIN \/ k.val > ANIMATION_SPEED_MAX
    THEN [d EXCEPT !.ret = -EINVAL]
    ELSE
      LET d1 == [d EXCEPT !.speed = k.val]
          d2 == IF d1.active /\ d1.mode # ANIMATION_STATIC
                THEN stop_animation(d1, env) ELSE d1
      IN  [save_animation_state(d2, env) EXCEPT !.ret = Len(buf), !.ok = TRUE]
animation_speed_set(d, buf, now, env) ==
    LET k == kstrtoul(buf, 10) IN
    IF k.err # 0 THEN [d EXCEPT !.ret = k.err]
    ELSE IF k.val < ANIMATION_SPEED_MIN \/ k.val > ANIMATION_SPEED_MAX
    THEN [d EXCEPT !.ret = -EINVAL]
    ELSE
      LET d1 == [d EXCEPT !.speed = k.val]
          d2 == IF d1.active /\ d1.mode # ANIMATION_STATIC
                THEN start_animation(stop_animation(d1, env), now) ELSE d1
      IN  [save_animation_state(d2, env) EXCEPT !.ret = Len(buf), !.ok = TRUE]

\* the driver when a handler, its text accepted, makes its first assignment
\* to mode, speed, brightness or an Original Color: zone_set, all_set and
\* animation_mode_set have called stop_animation by then, brightness_set
\* never calls it and animation_speed_set assigns the speed before it does
AtFirstMutation(op, d) ==
    IF op \in {"zone_set", "all_set", "animation_mode_set"}
    THEN stop_animation(d, NoFault)
    ELSE d

\* fourzone_setup's first loop from zone z on: read each zone from hardware
\* and store it as the zone's original color
RECURSIVE SetupZonesFrom(_, _, _)
SetupZonesFrom(d, z, env) ==
    IF z >= ZONE_COUNT THEN d
    ELSE
      LET d1 == fourzone_update_led_read(d, z, env)
      IN  IF d1.ret # 0 THEN d1
          ELSE SetupZonesFrom([d1 EXCEPT !.orig[z] = d1.zone[z]], z + 1, env)

\* fourzone_setup: ret = 0 when the driver came up
fourzone_setup(d, now, env) ==
    LET d1 == SetupZonesFrom([load_animation_state(d) EXCEPT !.ret = 0], 0, env)
    IN  IF d1.ret # 0 THEN d1
        ELSE IF d1.mode # ANIMATION_STATIC
        THEN [start_animation(d1, now) EXCEPT !.ret = 0]
        ELSE d1

(***************************************************************************)
(* The basic driver (hp-wmi.c): the same transport, zones and brightness,  *)
(* no effects and no state file.  Its functions carry the prefix basic_.   *)
(***************************************************************************)
basic_zone_set(d, z, buf, env) ==
    LET p == parse_rgb(buf) IN
    IF p.err # 0 THEN [d EXCEPT !.ret = p.err]
    ELSE
      LET d1 == [d EXCEPT !.zone[z] = p.colors]
          d2 == [d1 EXCEPT !.orig[z] = d1.zone[z],
                           !.zone[z] = ScaleColor(d1.zone[z], d1.brightness)]
          d3 == fourzone_update_led_write(d2, z, env)
      IN  IF d3.ret # 0 THEN d3
          ELSE [d3 EXCEPT !.ret = Len(buf), !.ok = TRUE]

basic_all_set(d, buf, env) ==
    LET p == parse_rgb(buf) IN
    IF p.err # 0 THEN [d EXCEPT !.ret = p.err]
    ELSE
      LET d2 == AllZonesFrom([d EXCEPT !.ret = 0], 0, p.colors, env)
      IN  IF d2.ret # 0 THEN d2
          ELSE [d2 EXCEPT !.ret = Len(buf), !.ok = TRUE]

basic_brightness_set(d, buf, env) ==
    LET k == kstrtoul(buf, 10) IN
    IF k.err # 0 THEN [d EXCEPT !.ret = -EINVAL]
    ELSE
      LET level == IF k.val > 100 THEN 100 ELSE k.val
          d1 == BrightnessZonesFrom([d EXCEPT !.brightness = level, !.ret = 0],
                                    0, level, env)
      IN  IF d1.ret # 0 THEN d1
          ELSE [d1 EXCEPT !.ret = Len(buf), !.ok = TRUE]

basic_fourzone_setup(d, env) == SetupZonesFrom([d EXCEPT !.ret = 0], 0, env)

(***************************************************************************)
(* Inputs of the model                                                     *)
(***************************************************************************)
NL == << "\n" >>
Palette ==
    << << "F", "F", "0", "0", "0", "0" >> \o NL,
       << "3", "3", "6", "6", "9", "9" >> \o NL,
       << "f", "f", "F", "F", "f", "f" >>,
       << "0", "x", "0", "0", "8", "0", "4", "0" >> \o NL >>
Min(a, b) == IF a <= b THEN a ELSE b
GoodColorTexts == {Palette[i] : i \in 1 .. Min(NumColors, Len(Palette))}
BadColorTexts ==
    { << "1", "0", "0", "0", "0", "0", "0" >> \o NL, << "r", "e", "d" >> \o NL }
ColorTexts == GoodColorTexts \cup BadColorTexts
BrightnessTexts50 == << "5", "0" >> \o NL
BrightnessTexts ==
    { BrightnessTexts50, << "0" >> \o NL, << "1", "5", "0" >> \o NL,
      << "m", "a", "x" >> \o NL }
GoodModeTexts == {mode_names[k] \o NL : k \in 1 .. ANIMATION_COUNT}
ModeTexts ==
    GoodModeTexts
        \cup { << "o", "f", "f" >> \o NL, << "d", "i", "s", "c", "o", "2" >> }
SpeedTexts3 == << "3" >>
SpeedTexts ==
    { << "1", "0" >> \o NL, SpeedTexts3, << "0" >> \o NL, << "1", "1" >> \o NL,
      << "f", "a", "s", "t" >> }

\* the frame the firmware holds when the driver is loaded: every byte
\* outside the zones is its own index; the zones are dark or lit from the
\* palette
BootFrame(lit) ==
    [i \in 0 .. (FRAME_SIZE - 1) |->
        IF i < ZONE_BASE \/ i >= ZONE_BASE + 3 * ZONE_COUNT THEN i
        ELSE IF ~lit THEN 0
        ELSE LET c == parse_rgb(Palette[1 + (((i - ZONE_BASE) \div 3) % 2)]).colors
                 k == (i - ZONE_BASE) % 3
             IN  IF k = 0 THEN c.red ELSE IF k = 1 THEN c.green ELSE c.blue]
InitFrames == {BootFrame(TRUE)}

SavedColors == [z \in Zones |-> parse_rgb(Palette[1 + ((z + 1) % 2)]).colors]
SavedFile == StateFile(ANIMATION_RAINBOW, 5, 50, SavedColors)
CorruptFile == StateFile(ANIMATION_COUNT, 11, 101, SavedColors)
ShortFile == [SavedFile EXCEPT !.size = STATE_SIZE - 1]

AllBlack == [z \in Zones |-> Black]

(***************************************************************************)
(* State                                                                   *)
(***************************************************************************)
VARIABLES
    phase,                  \* "boot", "running", "failed", "exiting", "exited"
    jiffies,
    frame,                  \* the firmware's frame
    zone_data,              \* zone_data[z].colors
    original_colors,        \* original_colors[z].colors
    global_brightness,
    current_animation,
    animation_speed,
    animation_active,
    animation_start_time,
    timer_pending,          \* animation_timer is armed
    timer_expires,
    timer_cb,               \* animation_timer_callback: "idle", "check", "act"
    work_pending,           \* animation_work is queued
    work_pc,                \* animation_work_func: "idle", "get", "set"
    work_zone,              \* the zone update_all_zones_with_colors is at
    work_colors,            \* its colors[] argument
    work_state,             \* fourzone_update_led's state[] in the work item
    disk,                   \* the state file
    ops, ticks, faults,     \* counters that bound the behaviours
    last,                   \* history: the last step
    streak                  \* history: consecutive successful brightness writes

drv == << zone_data, original_colors, global_brightness, current_animation,
          animation_speed, animation_active, animation_start_time >>
timer == << timer_pending, timer_expires, timer_cb >>
work == << work_pending, work_pc, work_zone, work_colors, work_state >>
vars == << phase, jiffies, frame, drv, timer, work, disk, ops, ticks, faults,
           last, streak >>

\* the driver's state as a record
Cur ==
    [frame |-> frame, zone |-> zone_data, orig |-> original_colors,
     brightness |-> global_brightness, mode |-> current_animation,
     speed |-> animation_speed, active |-> animation_active,
     start |-> animation_start_time, pending |-> timer_pending,
     expires |-> timer_expires, disk |-> disk, n |-> 0, ret |-> 0, ok |-> FALSE,
     log |-> << >>]

\* the record written back to the variables
Store(d) ==
    /\ frame' = d.frame
    /\ zone_data' = d.zone
    /\ original_colors' = d.orig
    /\ global_brightness' = d.brightness
    /\ current_animation' = d.mode
    /\ animation_speed' = d.speed
    /\ animation_active' = d.active
    /\ animation_start_time' = d.start
    /\ timer_pending' = d.pending
    /\ timer_expires' = d.expires
    /\ disk' = d.disk

NoStreak == [n |-> 0, base |-> AllBlack, first |-> 0]
HardwareColors(f) == [z \in Zones |-> GetZone(f, z)]

\* the Animation State in memory, as the record save_animation_state builds
AnimationState ==
    StateFile(current_animation, animation_speed, global_brightness,
              original_colors)

\* what the environment did to the operation that ended in d
FaultOf(env, d) ==
    IF env.at >= 1 /\ env.at <= d.n THEN "transport"
    ELSE IF ~env.writable THEN "storage"
    ELSE "none"

Step(op, z, buf, d, env) ==
    [op |-> op, z |-> z, buf |-> buf, ret |-> d.ret, ok |-> d.ok,
     was_active |-> animation_active, hw |-> HardwareColors(frame),
     fault |-> FaultOf(env, d), calls |-> d.n, writes |-> d.log,
     before |-> AnimationState]
\* after a step of the clock, the timer or the work item
NoStep ==
    [op |-> "none", z |-> 0, buf |-> << >>, ret |-> 0, ok |-> FALSE,
     was_active |-> FALSE, hw |-> AllBlack, fault |-> "none", calls |-> 0,
     writes |-> << >>, before |-> NoFile]

InitWith(disks) ==
    /\ phase = "boot"
    /\ jiffies = 0
    /\ frame \in InitFrames
    /\ zone_data = AllBlack
    /\ original_colors = AllBlack
    /\ global_brightness = 100
    /\ current_animation = ANIMATION_STATIC
    /\ animation_speed = ANIMATION_SPEED_DEFAULT
    /\ animation_active = FALSE
    /\ animation_start_time = 0
    /\ timer_pending = FALSE
    /\ timer_expires = 0
    /\ timer_cb = "idle"
    /\ work_pending = FALSE
    /\ work_pc = "idle"
    /\ work_zone = 0
    /\ work_colors = AllBlack
    /\ work_state = BootFrame(FALSE)
    /\ disk \in disks
    /\ ops = 0
    /\ ticks = 0
    /\ faults = 0
    /\ last = NoStep
    /\ streak = NoStreak

(***************************************************************************)
(* Actions: driver setup and the command handlers.  Each takes the set of  *)
(* environments the operation may meet.                                    *)
(***************************************************************************)
FaultsLeft == MaxFaults - faults
Charge(env) == faults' = faults + (IF IsFault(env) THEN 1 ELSE 0)

\* hp_wmi_init -> fourzone_setup
SetupIn(E) ==
    /\ phase = "boot"
    /\ \E env \in E :
         LET d == fourzone_setup(Cur, jiffies, env)
         IN  /\ Store(d)
             /\ phase' = IF d.ret = 0 THEN "running" ELSE "failed"
             /\ last' = Step("setup", 0, << >>, d, env)
             /\ Charge(env)
    /\ streak' = NoStreak
    /\ UNCHANGED << jiffies, timer_cb, work, ops, ticks >>

\* a handler that ended in d
Handled(op, z, buf, d, env) ==
    /\ Store(d)
    /\ last' = Step(op, z, buf, d, env)
    /\ Charge(env)
    /\ ops' = ops + 1
    /\ UNCHANGED << phase, jiffies, timer_cb, work, ticks >>

CanHandle == phase = "running" /\ ops < MaxOps

ZoneSetIn(Zs, Texts, E) ==
    /\ CanHandle
    /\ \E z \in Zs, buf \in Texts, env \in E :
         Handled("zone_set", z, buf, zone_set(Cur, z, buf, env), env)
    /\ streak' = NoStreak

AllSetIn(Texts, E) ==
    /\ CanHandle
    /\ \E buf \in Texts, env \in E :
         Handled("all_set", 0, buf, all_set(Cur, buf, env), env)
    /\ streak' = NoStreak

BrightnessSetIn(Texts, E) ==
    /\ CanHandle
    /\ \E buf \in Texts, env \in E :
         LET d == brightness_set(Cur, buf, env)
         IN  /\ Handled("brightness_set", 0, buf, d, env)
             /\ streak' =
                  IF ~d.ok THEN NoStreak
                  ELSE IF streak.n = 1
                  THEN [streak EXCEPT !.n = 2]
                  ELSE [n |-> 1, base |-> HardwareColors(frame),
                        first |-> d.brightness]

AnimationModeSetIn(Texts, E) ==
    /\ CanHandle
    /\ \E buf \in Texts, env \in E :
         Handled("animation_mode_set", 0, buf,
                 animation_mode_set(Cur, buf, jiffies, env), env)
    /\ streak' = NoStreak

AnimationSpeedSetIn(Texts, E) ==
    /\ CanHandle
    /\ \E buf \in Texts, env \in E :
         Handled("animation_speed_set", 0, buf,
                 animation_speed_set(Cur, buf, jiffies, env), env)
    /\ streak' = NoStreak

(***************************************************************************)
(* Actions: teardown (hp_wmi_exit)                                         *)
(***************************************************************************)
\* stop_animation()
ExitStopIn(E) ==
    /\ phase = "running"
    /\ \E env \in E :
         LET d == stop_animation(Cur, env)
         IN  /\ Store(d)
             /\ last' = Step("exit_stop", 0, << >>, d, env)
             /\ Charge(env)
    /\ phase' = "exiting"
    /\ streak' = NoStreak
    /\ UNCHANGED << jiffies, timer_cb, work, ops, ticks >>

\* cancel_work_sync(&animation_work): returns once the work item is neither
\* queued nor running
ExitCancel ==
    /\ phase = "exiting"
    /\ work_pc = "idle"
    /\ work_pending' = FALSE
    /\ phase' = "exited"
    /\ last' = [NoStep EXCEPT !.op = "exit_cancel"]
    /\ UNCHANGED << jiffies, frame, drv, timer, work_pc, work_zone, work_colors,
                    work_state, disk, ops, ticks, faults, streak >>

(***************************************************************************)
(* Actions: the clock, the timer and the work item                         *)
(***************************************************************************)
ClockStep == msecs_to_jiffies(ANIMATION_TIMER_INTERVAL_MS)
TimerDue == timer_pending /\ jiffies >= timer_expires

\* jiffies advance by one timer period; an expired timer fires, and a frame
\* that was begun is finished, before they advance again
Tick ==
    /\ ticks < MaxTicks
    /\ ~TimerDue
    /\ timer_cb = "idle"
    /\ work_pc = "idle"
    /\ jiffies' = jiffies + ClockStep
    /\ ticks' = ticks + 1
    /\ last' = NoStep
    /\ UNCHANGED << phase, frame, drv, timer, work, disk, ops, faults, streak >>

\* the timer expires with no other context running: the callback, and the
\* work item it schedules, run to their ends
Frame ==
    /\ TimerDue
    /\ timer_cb = "idle"
    /\ work_pc = "idle"
    /\ LET d0 == [Cur EXCEPT !.pending = FALSE]
           d1 == animation_timer_callback(d0, jiffies)
           d2 == IF TimerRuns(d0) THEN animation_work_func(d1, jiffies, NoFault)
                 ELSE d1
       IN  /\ Store(d2)
           /\ last' = [NoStep EXCEPT !.op = "frame", !.calls = d2.n]
    /\ streak' = NoStreak
    /\ UNCHANGED << phase, jiffies, timer_cb, work, ops, ticks, faults >>

\* the timer expires: the kernel detaches it and calls the callback
TimerFire ==
    /\ TimerDue
    /\ timer_cb = "idle"
    /\ timer_pending' = FALSE
    /\ timer_cb' = "check"
    /\ last' = NoStep
    /\ UNCHANGED << phase, jiffies, frame, drv, timer_expires, work, disk, ops,
                    ticks, faults, streak >>

\* animation_timer_callback: the test of its if
CallbackCheck ==
    /\ timer_cb = "check"
    /\ timer_cb' = IF TimerRuns(Cur) THEN "act" ELSE "idle"
    /\ last' = NoStep
    /\ UNCHANGED << phase, jiffies, frame, drv, timer_pending, timer_expires, work,
                    disk, ops, ticks, faults, streak >>

\* animation_timer_callback: schedule_work and mod_timer
CallbackAct ==
    /\ timer_cb = "act"
    /\ work_pending' = TRUE
    /\ timer_pending' = TRUE
    /\ timer_expires' = jiffies + msecs_to_jiffies(ANIMATION_TIMER_INTERVAL_MS)
    /\ timer_cb' = "idle"
    /\ last' = NoStep
    /\ UNCHANGED << phase, jiffies, frame, drv, work_pc, work_zone, work_colors,
                    work_state, disk, ops, ticks, faults, streak >>

\* animation_work_func starts: its test, then the generator of the mode
WorkBegin ==
    /\ work_pending
    /\ work_pc = "idle"
    /\ work_pending' = FALSE
    /\ IF TimerRuns(Cur)
       THEN /\ work_colors' = FrameColors(current_animation,
                                          jiffies - animation_start_time,
                                          original_colors, animation_speed)
            /\ work_pc' = "get"
            /\ work_zone' = 0
       ELSE UNCHANGED << work_colors, work_pc, work_zone >>
    /\ last' = NoStep
    /\ UNCHANGED << phase, jiffies, frame, drv, timer, work_state, disk, ops,
                    ticks, faults, streak >>

WorkNext ==
    IF work_zone + 1 < ZONE_COUNT
    THEN work_pc' = "get" /\ work_zone' = work_zone + 1
    ELSE work_pc' = "idle" /\ work_zone' = 0

WorkResponses == {OkResponse} \cup (IF FaultsLeft > 0 THEN FaultResponses ELSE {})
ReliableResponses == {OkResponse}

\* update_all_zones_with_colors, one zone: the copy, apply_brightness_to_color
\* and fourzone_update_led up to the answer to FOURZONE_COLOR_GET
WorkGetIn(R) ==
    /\ work_pc = "get"
    /\ zone_data' = [zone_data EXCEPT ![work_zone] =
                        apply_brightness_to_color(work_colors[work_zone],
                                                  global_brightness)]
    /\ \E resp \in R :
         /\ faults' = faults + (IF resp = OkResponse THEN 0 ELSE 1)
         /\ IF hp_wmi_perform_query(resp, FRAME_SIZE, FRAME_SIZE) = 0
            THEN work_state' = frame /\ work_pc' = "set" /\ work_zone' = work_zone
            ELSE work_state' = work_state /\ WorkNext
    /\ last' = NoStep
    /\ streak' = NoStreak
    /\ UNCHANGED << phase, jiffies, frame, original_colors, global_brightness,
                    current_animation, animation_speed, animation_active,
                    animation_start_time, timer, work_pending, work_colors, disk,
                    ops, ticks >>

\* the rest of fourzone_update_led: the zone's bytes and FOURZONE_COLOR_SET
WorkSetIn(R) ==
    /\ work_pc = "set"
    /\ \E resp \in R :
         /\ faults' = faults + (IF resp = OkResponse THEN 0 ELSE 1)
         /\ frame' = IF hp_wmi_perform_query(resp, FRAME_SIZE, FRAME_SIZE) = 0
                     THEN PutZone(work_state, work_zone, zone_data[work_zone])
                     ELSE frame
    /\ WorkNext
    /\ last' = NoStep
    /\ streak' = NoStreak
    /\ UNCHANGED << phase, jiffies, drv, timer, work_pending, work_colors,
                    work_state, disk, ops, ticks >>

(***************************************************************************)
(* The driver over a reliable transport, with best-effort storage: the     *)
(* command handlers, the clock and whole animation frames                  *)
(***************************************************************************)
\* every transport call succeeds
Reliable == {NoFault}
\* every transport call succeeds; the state file may fail to open
ReliableTransport == StorageEnvs(FaultsLeft)
Init == InitWith({NoFile, SavedFile})
Setup == SetupIn(Reliable)
ZoneSet == ZoneSetIn(Zones, ColorTexts, ReliableTransport)
AllSet == AllSetIn(ColorTexts, ReliableTransport)
BrightnessSet == BrightnessSetIn(BrightnessTexts, ReliableTransport)
AnimationModeSet == AnimationModeSetIn(ModeTexts, ReliableTransport)
AnimationSpeedSet == AnimationSpeedSetIn(SpeedTexts, ReliableTransport)
ExitStop == ExitStopIn(Reliable)

Next ==
    \/ Setup
    \/ ZoneSet
    \/ AllSet
    \/ BrightnessSet
    \/ AnimationModeSet
    \/ AnimationSpeedSet
    \/ ExitStop
    \/ ExitCancel
    \/ Tick
    \/ Frame

Spec == Init /\ [][Next]_vars

(***************************************************************************)
(* The command path alone in an unreliable environment: any one transport  *)
(* call of an operation may fail, or the state file cannot be written.     *)
(* The clock stands still.                                                 *)
(***************************************************************************)
InitFaulty == InitWith({NoFile, SavedFile, CorruptFile, ShortFile})
SetupFaulty == SetupIn(Envs(ZONE_COUNT, FaultsLeft))
ZoneSetFaulty == ZoneSetIn(Zones, ColorTexts, Envs(10, FaultsLeft))
AllSetFaulty == AllSetIn(ColorTexts, Envs(16, FaultsLeft))
BrightnessSetFaulty == BrightnessSetIn(BrightnessTexts, Envs(12, FaultsLeft))
AnimationModeSetFaulty == AnimationModeSetIn(ModeTexts, Envs(8, FaultsLeft))
AnimationSpeedSetFaulty == AnimationSpeedSetIn(SpeedTexts, Envs(8, FaultsLeft))
ExitStopFaulty == ExitStopIn(Envs(8, FaultsLeft))

NextFaulty ==
    \/ SetupFaulty
    \/ ZoneSetFaulty
    \/ AllSetFaulty
    \/ BrightnessSetFaulty
    \/ AnimationModeSetFaulty
    \/ AnimationSpeedSetFaulty
    \/ ExitStopFaulty
    \/ ExitCancel

SpecFaulty == InitFaulty /\ [][NextFaulty]_vars

(***************************************************************************)
(* The three contexts interleaved: a command handler or teardown (process  *)
(* context), the timer callback (softirq) and the work item (kworker),     *)
(* over a reliable transport                                               *)
(***************************************************************************)
CanRace == ops < MaxRaceOps
RainbowText == mode_names[ANIMATION_RAINBOW + 1] \o NL
StaticText == mode_names[ANIMATION_STATIC + 1] \o NL
ZoneSetRace == CanRace /\ ZoneSetIn({1}, {Palette[1]}, Reliable)
AllSetRace == CanRace /\ AllSetIn({Palette[2]}, Reliable)
BrightnessSetRace == CanRace /\ BrightnessSetIn({BrightnessTexts50}, Reliable)
AnimationModeSetRace ==
    CanRace /\ AnimationModeSetIn({StaticText, RainbowText}, Reliable)
AnimationSpeedSetRace == CanRace /\ AnimationSpeedSetIn({SpeedTexts3}, Reliable)
WorkGet == WorkGetIn(ReliableResponses)
WorkSet == WorkSetIn(ReliableResponses)

NextRace ==
    \/ Setup
    \/ ZoneSetRace
    \/ AllSetRace
    \/ BrightnessSetRace
    \/ AnimationModeSetRace
    \/ AnimationSpeedSetRace
    \/ ExitStop
    \/ ExitCancel
    \/ Tick
    \/ TimerFire
    \/ CallbackCheck
    \/ CallbackAct
    \/ WorkBegin
    \/ WorkGet
    \/ WorkSet

SpecRace == Init /\ [][NextRace]_vars

(***************************************************************************)
(* The timer and the work item over a transport that may fail, with mode   *)
(* writes as the only commands.  The clock does not stop while a timer is  *)
(* armed in static mode.  Timers fire, callbacks return and queued work    *)
(* runs: weak fairness of each of their steps.                             *)
(***************************************************************************)
TickOn ==
    /\ ticks < MaxTicks \/ (timer_pending /\ ~TimerRuns(Cur))
    /\ ~TimerDue
    /\ timer_cb = "idle"
    /\ work_pc = "idle"
    /\ jiffies' = jiffies + ClockStep
    /\ ticks' = IF ticks < MaxTicks THEN ticks + 1 ELSE ticks
    /\ last' = NoStep
    /\ UNCHANGED << phase, frame, drv, timer, work, disk, ops, faults, streak >>
WorkGetFaulty == WorkGetIn(WorkResponses)
WorkSetFaulty == WorkSetIn(WorkResponses)

NextTimer ==
    \/ Setup
    \/ AnimationModeSetRace
    \/ TickOn
    \/ TimerFire
    \/ CallbackCheck
    \/ CallbackAct
    \/ WorkBegin
    \/ WorkGetFaulty
    \/ WorkSetFaulty

SpecTimer == Init /\ [][NextTimer]_vars

FairSpecTimer ==
    /\ SpecTimer
    /\ WF_vars(TickOn)
    /\ WF_vars(TimerFire)
    /\ WF_vars(CallbackCheck)
    /\ WF_vars(CallbackAct)
    /\ WF_vars(WorkBegin)
    /\ WF_vars(WorkGetFaulty)
    /\ WF_vars(WorkSetFaulty)

(***************************************************************************)
(* The persistence layer alone: a state is saved, the module is loaded     *)
(* again (its globals back at their initialisers) and the file is read; or *)
(* a file of any content is read into a driver in any state.               *)
(***************************************************************************)
BootColors == HardwareColors(BootFrame(TRUE))
\* the fields of a record on disk, in and out of range
RecordModes == {-1, ANIMATION_STATIC, ANIMATION_DISCO, ANIMATION_COUNT}
RecordSpeeds ==
    {ANIMATION_SPEED_MIN - 1, ANIMATION_SPEED_MIN, ANIMATION_SPEED_MAX,
     ANIMATION_SPEED_MAX + 1}
RecordLevels == {-1, 0, 100, 101}
Records ==
    {StateFile(m, sp, b, SavedColors) :
        m \in RecordModes, sp \in RecordSpeeds, b \in RecordLevels}
        \cup {NoFile, ShortFile}

InitMemory(modes, speeds, levels, colors, disks) ==
    /\ phase = "persist"
    /\ jiffies = 0
    /\ frame \in InitFrames
    /\ zone_data = AllBlack
    /\ original_colors \in colors
    /\ global_brightness \in levels
    /\ current_animation \in modes
    /\ animation_speed \in speeds
    /\ animation_active = FALSE
    /\ animation_start_time = 0
    /\ timer_pending = FALSE
    /\ timer_expires = 0
    /\ timer_cb = "idle"
    /\ work_pending = FALSE
    /\ work_pc = "idle"
    /\ work_zone = 0
    /\ work_colors = AllBlack
    /\ work_state = BootFrame(FALSE)
    /\ disk \in disks
    /\ ops = 0
    /\ ticks = 0
    /\ faults = 0
    /\ last = NoStep
    /\ streak = NoStreak

\* any in-range state in memory and no file yet; or one of two states in
\* memory and any record on disk
InitPersist ==
    \/ InitMemory(ANIMATION_STATIC .. (ANIMATION_COUNT - 1),
                  ANIMATION_SPEED_MIN .. ANIMATION_SPEED_MAX, 0 .. 100,
                  {BootColors, SavedColors}, {NoFile})
    \/ InitMemory({ANIMATION_STATIC, ANIMATION_WAVE}, {ANIMATION_SPEED_DEFAULT, 7},
                  {100, 30}, {AllBlack, BootColors}, Records)

PersistStep(op, d) == Step(op, 0, << >>, d, NoFault)
PersistFrame ==
    UNCHANGED << jiffies, timer_cb, work, ops, ticks, faults, streak >>

\* save_animation_state()
SaveState ==
    /\ phase = "persist"
    /\ LET d == save_animation_state(Cur, NoFault)
       IN  Store(d) /\ last' = PersistStep("save", d)
    /\ phase' = "saved"
    /\ PersistFrame

\* the module is removed and inserted again: every global is back at its
\* initialiser
ReloadModule ==
    /\ phase = "saved"
    /\ Store([Cur EXCEPT !.mode = ANIMATION_STATIC,
                         !.speed = ANIMATION_SPEED_DEFAULT,
                         !.brightness = 100,
                         !.orig = AllBlack])
    /\ phase' = "reloaded"
    /\ UNCHANGED last
    /\ PersistFrame

\* load_animation_state(), after a save and a reload or on the state and
\* file of Init
LoadState ==
    /\ phase \in {"persist", "reloaded"}
    /\ LET d == load_animation_state(Cur)
       IN  /\ Store(d)
           /\ last' = IF phase = "reloaded"
                      THEN [last EXCEPT !.op = "save_load"]
                      ELSE PersistStep("load", d)
    /\ phase' = "loaded"
    /\ PersistFrame

NextPersist ==
    \/ SaveState
    \/ ReloadModule
    \/ LoadState

SpecPersist == InitPersist /\ [][NextPersist]_vars

(***************************************************************************)
(* One frame of a running effect: an effect was started at jiffies 0 and   *)
(* its work item, scheduled by the timer callback (or left over from the   *)
(* effect that ran before the start), runs to its end at any elapsed time, *)
(* over a reliable transport                                               *)
(***************************************************************************)
EffectModes == (ANIMATION_STATIC + 1) .. (ANIMATION_COUNT - 1)
EffectLevels == {100, 50}
ShownFrame(colors) ==
    PutZone(PutZone(PutZone(PutZone(BootFrame(TRUE), 0, colors[0]),
                            1, colors[1]), 2, colors[2]), 3, colors[3])
\* the state start_animation leaves, and the clock at any time after it
InitEffectsAt(times) ==
    /\ phase = "running"
    /\ jiffies \in times
    /\ original_colors = SavedColors
    /\ global_brightness \in EffectLevels
    /\ zone_data = [z \in Zones |-> ScaleColor(original_colors[z], global_brightness)]
    /\ frame = ShownFrame(zone_data)
    /\ current_animation \in EffectModes
    /\ animation_speed \in ANIMATION_SPEED_MIN .. ANIMATION_SPEED_MAX
    /\ animation_active = TRUE
    /\ animation_start_time = 0
    /\ timer_pending = TRUE
    /\ timer_expires = (jiffies \div ClockStep) * ClockStep + ClockStep
    /\ timer_cb = "idle"
    /\ work_pending = TRUE
    /\ work_pc = "idle"
    /\ work_zone = 0
    /\ work_colors = AllBlack
    /\ work_state = BootFrame(FALSE)
    /\ disk = AnimationState
    /\ ops = 0
    /\ ticks = 0
    /\ faults = 0
    /\ last = NoStep
    /\ streak = NoStreak

\* animation_work_func, from its start to its end
WorkRun ==
    /\ work_pending
    /\ work_pc = "idle"
    /\ work_pending' = FALSE
    /\ LET d == animation_work_func(Cur, jiffies, NoFault)
       IN  /\ Store(d)
           /\ last' = [NoStep EXCEPT !.op = "work", !.calls = d.n,
                                     !.hw = HardwareColors(frame),
                                     !.before = AnimationState]
    /\ UNCHANGED << phase, jiffies, timer_cb, work_pc, work_zone, work_colors,
                    work_state, ops, ticks, faults, streak >>

InitEffects == InitEffectsAt(0 .. MaxElapsed)

NextEffects == WorkRun

SpecEffects == InitEffects /\ [][NextEffects]_vars

\* the same with the clock and the timer: after the frame of the queued work
\* item the timer expires period after period, each time with its frame
EffectTimes == {0, 37}
InitTimedEffects == InitEffectsAt(EffectTimes)
NextTimedEffects ==
    \/ WorkRun
    \/ Tick
    \/ Frame

SpecTimedEffects == InitTimedEffects /\ [][NextTimedEffects]_vars

(***************************************************************************)
(* parse_rgb alone: one text, drawn from the numerals of up to MaxDigits    *)
(* digits and their malformed neighbours, is parsed into a zone's color    *)
(***************************************************************************)
ParseAlphabet == {"0", "a", "F"}
Numerals == UNION {[1 .. n -> ParseAlphabet] : n \in 0 .. MaxDigits}
ParseTexts ==
    UNION {{ds, ds \o NL, << "0", "x" >> \o ds \o NL, ds \o << "g" >>,
            << "+" >> \o ds} : ds \in Numerals}

InitParse ==
    /\ phase = "running"
    /\ jiffies = 0
    /\ frame = BootFrame(TRUE)
    /\ zone_data = BootColors
    /\ original_colors = BootColors
    /\ global_brightness = 100
    /\ current_animation = ANIMATION_STATIC
    /\ animation_speed = ANIMATION_SPEED_DEFAULT
    /\ animation_active = FALSE
    /\ animation_start_time = 0
    /\ timer_pending = FALSE
    /\ timer_expires = 0
    /\ timer_cb = "idle"
    /\ work_pending = FALSE
    /\ work_pc = "idle"
    /\ work_zone = 0
    /\ work_colors = AllBlack
    /\ work_state = BootFrame(FALSE)
    /\ disk = NoFile
    /\ ops = 0
    /\ ticks = 0
    /\ faults = 0
    /\ last = NoStep
    /\ streak = NoStreak

\* parse_rgb(buf, &zone_data[z]): the color is assigned only at the end
ParseRgb ==
    /\ ops = 0
    /\ \E buf \in ParseTexts, z \in {1} :
         LET p == parse_rgb(buf)
         IN  /\ zone_data' = IF p.err = 0 THEN [zone_data EXCEPT ![z] = p.colors]
                             ELSE zone_data
             /\ last' = [NoStep EXCEPT !.op = "parse_rgb", !.z = z, !.buf = buf,
                                       !.ret = p.err, !.ok = (p.err = 0)]
    /\ ops' = 1
    /\ UNCHANGED << phase, jiffies, frame, original_colors, global_brightness,
                    current_animation, animation_speed, animation_active,
                    animation_start_time, timer, work, disk, ticks, faults,
                    streak >>

NextParse == ParseRgb

SpecParse == InitParse /\ [][NextParse]_vars

(***************************************************************************)
(* Brightness scaling alone: stop_animation restores the four zones from   *)
(* any Original Colors at any brightness                                   *)
(***************************************************************************)
\* four colors whose twelve channels differ, from one channel value
Spread(c) ==
    [z \in Zones |-> RGB((c + 64 * z) % 256, (255 - c + 16 * z) % 256,
                         (7 * c + 3 + z) % 256)]
InitBrightness ==
    /\ phase = "running"
    /\ jiffies = 0
    /\ frame = BootFrame(FALSE)
    /\ zone_data = AllBlack
    /\ original_colors \in {Spread(c) : c \in Byte}
    /\ global_brightness \in 0 .. 100
    /\ current_animation = ANIMATION_STATIC
    /\ animation_speed = ANIMATION_SPEED_DEFAULT
    /\ animation_active = FALSE
    /\ animation_start_time = 0
    /\ timer_pending = FALSE
    /\ timer_expires = 0
    /\ timer_cb = "idle"
    /\ work_pending = FALSE
    /\ work_pc = "idle"
    /\ work_zone = 0
    /\ work_colors = AllBlack
    /\ work_state = BootFrame(FALSE)
    /\ disk = NoFile
    /\ ops = 0
    /\ ticks = 0
    /\ faults = 0
    /\ last = NoStep
    /\ streak = NoStreak

\* stop_animation(), called with no effect running
StopAnimation ==
    /\ ops = 0
    /\ LET d == stop_animation(Cur, NoFault)
       IN  Store(d) /\ last' = Step("stop_animation", 0, << >>, d, NoFault)
    /\ ops' = 1
    /\ UNCHANGED << phase, jiffies, timer_cb, work, ticks, faults, streak >>

NextBrightness == StopAnimation

SpecBrightness == InitBrightness /\ [][NextBrightness]_vars

(***************************************************************************)
(* hp_wmi_perform_query alone: one query with any sizes, answered by any   *)
(* response.  A response is absent, an object that is no buffer, or a      *)
(* buffer of some length: the 8-byte struct bios_return with the status    *)
(* code in bytes 4..7, then the payload.                                   *)
(***************************************************************************)
HEADER_SIZE == 8
OutSizes == {-1, 0, 1, 4, 5, 128, 129, 1024, 1025, 4096, 4097}
InSizes == {0, 4, 128, 129}
ResponseLengths == {0, 4, 8, 9, 12, 136, 140}
StatusCodes == {0, 3, HPWMI_RET_INVALID_PARAMETERS}
QueryResponses ==
    { [kind |-> "absent", code |-> 0, length |-> 0],
      [kind |-> "integer", code |-> 0, length |-> 0] }
        \cup { [kind |-> "buffer", code |-> c, length |-> n] :
                 c \in StatusCodes, n \in ResponseLengths }
\* the response's byte i, i >= 8: never 0, to tell it from the zero fill
PayloadByte(i) == ((3 * i) % 255) + 1
\* the caller's buffer before the query
CallerBuffer(outsize) == [i \in 0 .. (outsize - 1) |-> 170]

\* bios_return->return_code: read from the response, or, when the buffer is
\* shorter than the struct, from whatever follows it in memory
ReturnCodes(resp) ==
    IF resp.length >= HEADER_SIZE THEN {resp.code}
    ELSE {0, HPWMI_RET_INVALID_PARAMETERS}

\* hp_wmi_perform_query: every outcome of one call.  called: the transport
\* was invoked, with method id mid.  crashed: memcpy was given a negative
\* length, which as a size_t is beyond any mapping.
QueryOutcomes(resp, buffer, insize, outsize) ==
    LET mid == encode_outsize_for_pvsz(outsize)
        Returns(r, c, b) ==
            [ret |-> r, buffer |-> b, called |-> c, mid |-> mid,
             crashed |-> FALSE]
        actual_outsize == Min(outsize, resp.length - HEADER_SIZE)
        Copied ==
            [i \in DOMAIN buffer |->
                IF i < actual_outsize THEN PayloadByte(HEADER_SIZE + i) ELSE 0]
        After(code) ==
            IF code # 0 THEN Returns(code, TRUE, buffer)
            ELSE IF outsize = 0 THEN Returns(0, TRUE, buffer)
            ELSE IF actual_outsize < 0
            THEN [Returns(0, TRUE, buffer) EXCEPT !.crashed = TRUE]
            ELSE Returns(0, TRUE, Copied)
    IN  IF mid < 0 THEN {Returns(mid, FALSE, buffer)}
        ELSE IF insize > FRAME_SIZE THEN {Returns(-EINVAL, FALSE, buffer)}
        ELSE IF resp.kind = "absent" THEN {Returns(-EINVAL, TRUE, buffer)}
        ELSE IF resp.kind # "buffer" THEN {Returns(-EINVAL, TRUE, buffer)}
        ELSE {After(code) : code \in ReturnCodes(resp)}

\* one call of hp_wmi_perform_query; work_state is the caller's buffer
PerformQuery ==
    /\ ops = 0
    /\ \E insize \in InSizes, outsize \in OutSizes, resp \in QueryResponses :
         \E o \in QueryOutcomes(resp, CallerBuffer(outsize), insize, outsize) :
             /\ work_state' = o.buffer
             /\ last' = [op |-> "query", insize |-> insize, outsize |-> outsize,
                         resp |-> resp, ret |-> o.ret, called |-> o.called,
                         mid |-> o.mid, crashed |-> o.crashed]
    /\ ops' = 1
    /\ UNCHANGED << phase, jiffies, frame, drv, timer, timer_cb, work_pending,
                    work_pc, work_zone, work_colors, disk, ticks, faults,
                    streak >>

NextCodec == PerformQuery

SpecCodec == InitParse /\ [][NextCodec]_vars

(***************************************************************************)
(* simple_sin applied to one angle, as the effects call it                 *)
(***************************************************************************)
MaxAngle == 720
Angles == (0 - MaxAngle) .. MaxAngle

SimpleSin ==
    /\ ops = 0
    /\ \E angle_degrees \in Angles :
         last' = [op |-> "simple_sin", angle |-> angle_degrees,
                  value |-> simple_sin(angle_degrees),
                  opposite |-> simple_sin(angle_degrees + 180)]
    /\ ops' = 1
    /\ UNCHANGED << phase, jiffies, frame, drv, timer, timer_cb, work_pending,
                    work_pc, work_state, work_zone, work_colors, disk, ticks,
                    faults, streak >>

NextSine == SimpleSin

SpecSine == InitParse /\ [][NextSine]_vars

(***************************************************************************)
(* The arithmetic of one frame: a generator at one elapsed time, one       *)
(* hsv_to_rgb conversion, one channel scaled by the brightness             *)
(***************************************************************************)
PhaseSteps == 24
HsvLevels == {0, 1, 33, 50, 99, 100}
MathColors == {SavedColors, [z \in Zones |-> RGB(255, 255, 255)], Spread(201)}
\* times spread over the first two cycles, the last tick of each, and one
\* far later
ElapsedTimes(cycle_time) ==
    {(cycle_time * k) \div PhaseSteps : k \in 0 .. (2 * PhaseSteps)}
        \cup {cycle_time - 1, 2 * cycle_time - 1, 1000003}

MathStep(rec) ==
    /\ last' = rec
    /\ ops' = 1
    /\ UNCHANGED << phase, jiffies, frame, drv, timer, timer_cb, work_pending,
                    work_pc, work_state, work_zone, work_colors, disk, ticks,
                    faults, streak >>

EffectMath ==
    /\ ops = 0
    /\ \E mode \in EffectModes, speed \in ANIMATION_SPEED_MIN .. ANIMATION_SPEED_MAX,
       orig \in MathColors :
        \E elapsed \in ElapsedTimes(FrameMath(mode, 0, orig, speed).cycle_time) :
            MathStep([op |-> "effect", mode |-> mode, speed |-> speed,
                      elapsed |-> elapsed, orig |-> orig,
                      math |-> FrameMath(mode, elapsed, orig, speed),
                      colors |-> FrameColors(mode, elapsed, orig, speed)])

HsvMath ==
    /\ ops = 0
    /\ \E h \in 0 .. 359, s \in HsvLevels, v \in HsvLevels :
        MathStep([op |-> "hsv", h |-> h, s |-> s, v |-> v,
                  value |-> hsv_to_rgb_math(h, s, v),
                  color |-> hsv_to_rgb(h, s, v)])

ScaleMath ==
    /\ ops = 0
    /\ \E c \in Byte, b \in 0 .. 100 :
        MathStep([op |-> "scale", channel |-> c, brightness |-> b,
                  value |-> ScaleChannel(c, b),
                  color |-> apply_brightness_to_color(RGB(c, c, c), b)])

NextMath ==
    \/ EffectMath
    \/ HsvMath
    \/ ScaleMath

SpecMath == InitParse /\ [][NextMath]_vars

(***************************************************************************)
(* The two drivers side by side in static mode: every zone, all and        *)
(* brightness write goes to both, and a transport call of the one gets the *)
(* answer the same call of the other gets.  The basic driver's state is    *)
(* kept in last.basic.                                                     *)
(***************************************************************************)
\* the state of the basic driver after an operation that ended in b
BasicState(b) ==
    [frame |-> b.frame, zone |-> b.zone, orig |-> b.orig,
     brightness |-> b.brightness, ret |-> b.ret, ok |-> b.ok]
\* before its setup: the module's static initializers
BasicBoot ==
    [frame |-> frame, zone |-> AllBlack, orig |-> AllBlack, brightness |-> 100,
     ret |-> 0, ok |-> FALSE]
BasicOf(b) ==
    [Cur EXCEPT !.frame = b.frame, !.zone = b.zone, !.orig = b.orig,
                !.brightness = b.brightness]
\* zone_set and all_set of the animation driver begin with the eight calls
\* of stop_animation, which the basic driver does not make
STOP_CALLS == 2 * ZONE_COUNT
BasicEnv(op, env) ==
    IF op \in {"zone_set", "all_set"}
    THEN [env EXCEPT !.at = IF @ > STOP_CALLS THEN @ - STOP_CALLS ELSE 0]
    ELSE env

BothSetup ==
    /\ phase = "boot"
    /\ \E env \in Envs(ZONE_COUNT, FaultsLeft) :
         LET d == fourzone_setup(Cur, jiffies, env)
             b == basic_fourzone_setup(BasicOf(BasicBoot), env)
         IN  /\ Store(d)
             /\ phase' = IF d.ret = 0 THEN "running" ELSE "failed"
             /\ last' = [basic |-> BasicState(b), zoned |-> FALSE]
                            @@ Step("setup", 0, << >>, d, env)
             /\ Charge(env)
    /\ UNCHANGED << jiffies, timer_cb, work, ops, ticks, streak >>

BothHandled(op, z, buf, d, b, env) ==
    /\ Store(d)
    /\ last' = [basic |-> BasicState(b),
                zoned |-> last.zoned \/ (op = "zone_set" /\ parse_rgb(buf).err = 0)]
                   @@ Step(op, z, buf, d, env)
    /\ Charge(env)
    /\ ops' = ops + 1
    /\ UNCHANGED << phase, jiffies, timer_cb, work, ticks, streak >>

BothZoneSet ==
    /\ CanHandle
    /\ \E z \in Zones, buf \in ColorTexts, env \in Envs(10, FaultsLeft) :
         BothHandled("zone_set", z, buf, zone_set(Cur, z, buf, env),
                     basic_zone_set(BasicOf(last.basic), z, buf,
                                    BasicEnv("zone_set", env)), env)

BothAllSet ==
    /\ CanHandle
    /\ \E buf \in ColorTexts, env \in Envs(16, FaultsLeft) :
         BothHandled("all_set", 0, buf, all_set(Cur, buf, env),
                     basic_all_set(BasicOf(last.basic), buf,
                                   BasicEnv("all_set", env)), env)

BothBrightnessSet ==
    /\ CanHandle
    /\ \E buf \in BrightnessTexts, env \in Envs(12, FaultsLeft) :
         BothHandled("brightness_set", 0, buf, brightness_set(Cur, buf, env),
                     basic_brightness_set(BasicOf(last.basic), buf,
                                          BasicEnv("brightness_set", env)), env)

InitBoth == InitWith({NoFile})
NextBoth ==
    \/ BothSetup
    \/ BothZoneSet
    \/ BothAllSet
    \/ BothBrightnessSet

SpecBoth == InitBoth /\ [][NextBoth]_vars

(***************************************************************************)
(* Properties                                                              *)
(***************************************************************************)
\* the color a text denotes: red in bits 16..23, green in 8..15, blue in 0..7
ColorOf(buf) ==
    LET v == kstrtoul(buf, 16).val
    IN  RGB((v \div 65536) % 256, (v \div 256) % 256, v % 256)
Hardware == HardwareColors(frame)
Succeeded(op) == last.op = op /\ last.ok
Scaled(colors) == [z \in Zones |-> ScaleColor(colors[z], global_brightness)]

\* C1: after a successful write of color c to zone z's endpoint, zone z's
\* Original Color is c and zone z's hardware color is c * brightness / 100
\* per channel, truncated.
C1_ZoneSetStoresColor ==
    Succeeded("zone_set") =>
        /\ original_colors[last.z] = ColorOf(last.buf)
        /\ Hardware[last.z] = ScaleColor(ColorOf(last.buf), global_brightness)
\* a zone write succeeded with a color other than the zone's earlier one
C1_Witness ==
    /\ Succeeded("zone_set")
    /\ last.hw[last.z] # ScaleColor(ColorOf(last.buf), global_brightness)

\* C2: after a successful zone, all or brightness write made while an effect
\* was active, the mode is static, the animation is inactive and the timer
\* is not armed.
C2_DirectWriteForcesStatic ==
    (last.op \in {"zone_set", "all_set", "brightness_set"} /\ last.ok
        /\ last.was_active) =>
        /\ current_animation = ANIMATION_STATIC
        /\ ~animation_active
        /\ ~timer_pending
\* a brightness write succeeded while an effect was active
C2_Witness == Succeeded("brightness_set") /\ last.was_active

\* C3: after two successful brightness writes p1, p2 in a row, each zone's
\* hardware color is base * p2 / 100, base being the zone's hardware color
\* before the first write.
C3_BrightnessDoesNotCompound ==
    streak.n = 2 => Hardware = Scaled(streak.base)
\* two brightness writes in a row, the first below 100, on lit zones
C3_Witness ==
    /\ streak.n = 2
    /\ streak.first < 100
    /\ streak.base # AllBlack

\* C4: after driver start with a valid persisted record of a non-static mode,
\* the effect is active with the record's mode and speed and with the
\* record's four colors as Original Colors, and setup has written no frame.
ValidRecord(f) ==
    /\ f.present
    /\ f.size = STATE_SIZE
    /\ f.mode \in ANIMATION_STATIC .. (ANIMATION_COUNT - 1)
    /\ f.speed \in ANIMATION_SPEED_MIN .. ANIMATION_SPEED_MAX
    /\ f.brightness \in 0 .. 100
Resumed ==
    /\ last.op = "setup"
    /\ phase = "running"
    /\ ValidRecord(disk)
    /\ disk.mode # ANIMATION_STATIC
C4_ResumeFromRecord ==
    Resumed =>
        /\ animation_active
        /\ current_animation = disk.mode
        /\ animation_speed = disk.speed
        /\ original_colors = disk.colors
        /\ Hardware = last.hw
\* the driver started from a record whose colors are not the hardware's
C4_Witness == Resumed /\ disk.colors # last.hw

\* C5: whenever no frame write is under way, the frame holds zone i's color
\* in bytes 25+3i .. 25+3i+2, in the order (red, green, blue); the four
\* ranges are disjoint and inside the 128-byte frame; and no other byte of
\* the frame has changed.
Started == phase \in {"running", "exiting", "exited"}
ZoneBytes(z) == (25 + 3 * z) .. (25 + 3 * z + 2)
LayoutSound ==
    /\ DOMAIN frame = 0 .. 127
    /\ \A z \in Zones : ZoneBytes(z) \subseteq DOMAIN frame
    /\ \A y, z \in Zones : y # z => ZoneBytes(y) \cap ZoneBytes(z) = {}
    /\ \A i \in DOMAIN frame :
         (\A z \in Zones : i \notin ZoneBytes(z)) => frame[i] = BootFrame(TRUE)[i]
C5_FrameLayout ==
    /\ LayoutSound
    /\ Started =>
         \A z \in Zones :
            /\ frame[25 + 3 * z] = zone_data[z].red
            /\ frame[25 + 3 * z + 1] = zone_data[z].green
            /\ frame[25 + 3 * z + 2] = zone_data[z].blue
\* C5 as stated: the order within a zone's three bytes is (blue, green, red)
C5_FrameLayoutBGR ==
    /\ LayoutSound
    /\ Started =>
         \A z \in Zones :
            /\ frame[25 + 3 * z] = zone_data[z].blue
            /\ frame[25 + 3 * z + 1] = zone_data[z].green
            /\ frame[25 + 3 * z + 2] = zone_data[z].red
\* a zone write has put a color with red # blue into the frame
C5_Witness ==
    /\ Succeeded("zone_set")
    /\ Hardware[last.z] # last.hw[last.z]
    /\ zone_data[last.z].red # zone_data[last.z].blue

\* C6: once teardown has deleted the timer and cancel_work_sync has returned,
\* the timer is not armed and the work item is neither queued nor running.
C6_TeardownQuiesces ==
    phase = "exited" =>
        /\ ~timer_pending
        /\ ~work_pending
        /\ work_pc = "idle"
\* teardown has finished while the timer callback, entered while the effect
\* was active, is past its test
C6_Witness == phase = "exited" /\ timer_cb = "act"

\* C7: after a mode write with a valid name m, the hardware shows every
\* zone's Original Color * brightness / 100; the mode is m; the animation is
\* active, with the timer armed 50 ms ahead, exactly if m is not static; and,
\* if the state file could be written, the persisted record holds mode m.
ModeWritten == last.op = "animation_mode_set" /\ last.ok
ModeEntered ==
    /\ Hardware = Scaled(original_colors)
    /\ current_animation = ParseMode(last.buf)
    /\ animation_active <=> current_animation # ANIMATION_STATIC
    /\ timer_pending <=> current_animation # ANIMATION_STATIC
    /\ timer_pending => timer_expires = jiffies + 50
C7_SetMode ==
    ModeWritten =>
        /\ ModeEntered
        /\ last.fault = "none" => (disk.present /\ disk.mode = current_animation)
\* C7 as stated: the persisted record holds mode m in every case
C7_SetModeAlwaysPersisted ==
    ModeWritten =>
        /\ ModeEntered
        /\ disk.present /\ disk.mode = current_animation
\* a mode write replaced a running effect and changed the hardware's colors
C7_Witness ==
    /\ ModeWritten
    /\ last.was_active
    /\ last.hw # Hardware
    /\ last.fault = "none"

\* C8: every start or restart of an effect (a mode write with a non-static
\* mode, a speed write while animating, the resume at driver start) leaves
\* start_time at the current time; a rainbow frame computed at that instant
\* gives zone 0 the color (255,0,0) at brightness 100.
Restarted ==
    /\ \/ last.op = "animation_mode_set" /\ last.ok
       \/ last.op = "animation_speed_set" /\ last.ok
       \/ last.op = "setup" /\ phase = "running"
    /\ animation_active
C8_RestartResetsPhase ==
    Restarted =>
        /\ animation_start_time = jiffies
        /\ current_animation = ANIMATION_RAINBOW =>
             apply_brightness_to_color(
                 FrameColors(current_animation, jiffies - animation_start_time,
                             original_colors, animation_speed)[0], 100)
               = RGB(255, 0, 0)
\* rainbow was written as the mode while an effect had been running for a
\* while
C8_Witness ==
    /\ Restarted
    /\ last.op = "animation_mode_set"
    /\ last.was_active
    /\ current_animation = ANIMATION_RAINBOW
    /\ jiffies > 0

\* C9: when stop_animation has returned (in a mode write, in a speed write
\* that restarts the effect, or in teardown), every zone's hardware color is
\* its Original Color * brightness / 100.
Stopped ==
    \/ last.op = "animation_mode_set" /\ last.ok
    \/ last.op = "animation_speed_set" /\ last.ok /\ last.was_active
    \/ last.op = "exit_stop"
C9_StopRestores == Stopped => Hardware = Scaled(original_colors)
\* an effect that had run for two timer periods, so that a frame of it was
\* on the hardware, was stopped, and the hardware's colors changed
C9_Witness ==
    /\ Stopped
    /\ last.was_active
    /\ jiffies >= animation_start_time + 100
    /\ last.hw # Hardware

\* C10: after a successful write of color c to the all endpoint, every
\* zone's Original Color is c, every zone's hardware color is
\* c * brightness / 100, the mode is static, no animation is active, and, if
\* the state file could be written, the persisted record holds these values.
Uniform(c) == [z \in Zones |-> c]
AllApplied ==
    /\ original_colors = Uniform(ColorOf(last.buf))
    /\ Hardware = Scaled(Uniform(ColorOf(last.buf)))
    /\ current_animation = ANIMATION_STATIC
    /\ ~animation_active
    /\ ~timer_pending
C10_AllSet ==
    Succeeded("all_set") =>
        /\ AllApplied
        /\ last.fault = "none" =>
             disk = StateFile(ANIMATION_STATIC, animation_speed,
                              global_brightness, Uniform(ColorOf(last.buf)))
\* C10 as stated: the persisted record holds these values in every case
C10_AllSetAlwaysPersisted ==
    Succeeded("all_set") =>
        /\ AllApplied
        /\ disk = StateFile(ANIMATION_STATIC, animation_speed,
                            global_brightness, Uniform(ColorOf(last.buf)))
\* an all write replaced a running effect at a brightness below 100
C10_Witness ==
    /\ Succeeded("all_set")
    /\ last.was_active
    /\ global_brightness < 100
    /\ last.fault = "none"

\* C11: every color the command path (zone, all and brightness writes, and
\* stop_animation's restore in any operation) wrote to the hardware is the
\* zone's Original Color at that moment * Global Brightness / 100, per
\* channel, truncated.
CommandOps ==
    {"zone_set", "all_set", "brightness_set", "animation_mode_set",
     "animation_speed_set", "exit_stop"}
C11_WritesAreScaledOriginals ==
    last.op \in CommandOps =>
        \A i \in DOMAIN last.writes :
            LET w == last.writes[i]
            IN  /\ w.color.red = (w.orig.red * w.brightness) \div 100
                /\ w.color.green = (w.orig.green * w.brightness) \div 100
                /\ w.color.blue = (w.orig.blue * w.brightness) \div 100
\* a zone write stopped an effect: four restoring writes, then the zone's,
\* at a brightness that truncates
C11_Witness ==
    /\ Succeeded("zone_set")
    /\ last.was_active
    /\ Len(last.writes) = 5
    /\ global_brightness = 50
    /\ \E i \in DOMAIN last.writes : last.writes[i].orig.red % 2 = 1

\* C12: after an endpoint write that changed the mode, the speed, the
\* brightness or an Original Color has returned, with success or with a
\* hardware error, and storage was writable, the persisted record equals the
\* Animation State in memory.
Endpoints ==
    {"zone_set", "all_set", "brightness_set", "animation_mode_set",
     "animation_speed_set"}
ChangedState ==
    /\ last.op \in Endpoints
    /\ last.fault # "storage"
    /\ AnimationState # last.before
C12_ChangePersisted == ChangedState => disk = AnimationState
\* a write returned a hardware error after it had changed the state
C12_Witness ==
    /\ ChangedState
    /\ last.fault = "transport"
    /\ ~last.ok

\* C13: a state with the mode among the ten values, the speed in 1..10 and
\* the brightness in 0..100 that is saved and then loaded into a freshly
\* initialised driver is in memory again: mode, speed, brightness and the
\* four Original Colors are the saved ones.
C13_SaveLoadRoundTrip ==
    last.op = "save_load" =>
        /\ current_animation = last.before.mode
        /\ animation_speed = last.before.speed
        /\ global_brightness = last.before.brightness
        /\ original_colors = last.before.colors
\* a state that differs from the initialisers in every field came back
C13_Witness ==
    /\ last.op = "save_load"
    /\ current_animation = ANIMATION_DISCO
    /\ animation_speed = ANIMATION_SPEED_MAX
    /\ global_brightness = 0
    /\ original_colors = SavedColors

\* C14: load applies each of mode, speed and brightness exactly if the
\* record's value is in its range, whatever the other fields are, and leaves
\* an out-of-range field's value in memory as it was; with no file nothing
\* in memory changes.
InRange(x, lo, hi) == x >= lo /\ x <= hi
Loaded == last.op = "load"
C14_LoadValidatesPerField ==
    Loaded =>
        IF ~disk.present THEN AnimationState = last.before
        ELSE disk.size = STATE_SIZE =>
            /\ current_animation =
                 IF InRange(disk.mode, 0, 9) THEN disk.mode ELSE last.before.mode
            /\ animation_speed =
                 IF InRange(disk.speed, 1, 10) THEN disk.speed
                 ELSE last.before.speed
            /\ global_brightness =
                 IF InRange(disk.brightness, 0, 100) THEN disk.brightness
                 ELSE last.before.brightness
\* a record with an out-of-range mode and in-range speed and brightness was
\* loaded over other values
C14_Witness ==
    /\ Loaded
    /\ disk.present
    /\ disk.size = STATE_SIZE
    /\ disk.mode = ANIMATION_COUNT
    /\ disk.speed = ANIMATION_SPEED_MAX
    /\ disk.brightness = 0
    /\ last.before.mode = ANIMATION_WAVE
    /\ last.before.speed = 7
    /\ last.before.brightness = 30
\* no file: load was called and found nothing
C14_WitnessNoFile == Loaded /\ ~disk.present

\* C15: in every state, whatever record was loaded and whatever was written
\* to the endpoints, the mode is one of the ten values, the speed is in 1..10
\* and the brightness is in 0..100; a brightness write of a number above 100
\* stores 100.
AboveMax(buf) == LET k == kstrtoul(buf, 10) IN k.err = 0 /\ k.val > 100
C15_RangesKept ==
    /\ current_animation \in ANIMATION_STATIC .. (ANIMATION_COUNT - 1)
    /\ animation_speed \in ANIMATION_SPEED_MIN .. ANIMATION_SPEED_MAX
    /\ global_brightness \in 0 .. 100
    /\ (last.op = "brightness_set" /\ AboveMax(last.buf))
           => global_brightness = 100
\* a record with every field out of range was found at load, and is still
\* the file because the save failed, and a brightness of 150 was written
C15_Witness ==
    /\ Succeeded("brightness_set")
    /\ AboveMax(last.buf)
    /\ disk = CorruptFile

\* C16: a write to the zone, all, brightness, mode or speed endpoint whose
\* text fails validation returns an error, makes no transport call and leaves
\* mode, speed, brightness, Original Colors, zone colors, the hardware frame,
\* the timer and the state file as they were.
BadText(op, buf) ==
    \/ op \in {"zone_set", "all_set"} /\ parse_rgb(buf).err # 0
    \/ op = "brightness_set" /\ kstrtoul(buf, 10).err # 0
    \/ op = "animation_mode_set" /\ ParseMode(buf) < 0
    \/ /\ op = "animation_speed_set"
       /\ LET k == kstrtoul(buf, 10)
          IN  k.err # 0 \/ k.val \notin ANIMATION_SPEED_MIN .. ANIMATION_SPEED_MAX
Refused == BadText(last.op, last.buf)
C16_BadTextChangesNothing ==
    [][(ops' = ops + 1 /\ BadText(last'.op, last'.buf)) =>
          /\ last'.ret < 0
          /\ last'.calls = 0
          /\ UNCHANGED << frame, zone_data, original_colors, global_brightness,
                          current_animation, animation_speed, animation_active,
                          animation_start_time, timer_pending, timer_expires,
                          disk >>]_vars
\* a text that is no color was written to a zone while an effect was running
\* with its timer armed
C16_Witness ==
    /\ Refused
    /\ last.op = "zone_set"
    /\ animation_active
    /\ timer_pending
    /\ last.ret < 0

\* C17: when the hardware read or write for zone k fails in the loop of an
\* "all" write or a brightness write, no write is issued for the zones after
\* k, the zones before k keep the new colors already written, and the
\* operation returns an error, not success.
LoopFailed ==
    /\ last.op \in {"all_set", "brightness_set"}
    /\ last.fault = "transport"
    /\ ~last.ok
\* the zone whose transport call failed: all_set's loop starts after the
\* eight calls of stop_animation and makes two calls per zone, brightness_set
\* makes three
FailedZone ==
    IF last.op = "all_set" THEN (last.calls - 9) \div 2
    ELSE (last.calls - 1) \div 3
LoopWrites ==
    IF last.op = "all_set" THEN SubSeq(last.writes, 5, Len(last.writes))
    ELSE last.writes
NewColor(z) ==
    IF last.op = "all_set" THEN ScaleColor(ColorOf(last.buf), global_brightness)
    ELSE ScaleColor(last.hw[z], global_brightness)
C17_AbortsWithoutRollback ==
    LoopFailed =>
        /\ Len(LoopWrites) = FailedZone
        /\ \A i \in DOMAIN LoopWrites :
               LoopWrites[i].z = i - 1 /\ LoopWrites[i].color = NewColor(i - 1)
        /\ \A z \in Zones : z < FailedZone => Hardware[z] = NewColor(z)
C17_PartialFailure ==
    /\ C17_AbortsWithoutRollback
    /\ LoopFailed => last.ret < 0
\* the write of zone 1 was refused by the firmware after zone 0 was written
C17_Witness ==
    /\ LoopFailed
    /\ FailedZone = 1
    /\ last.ret > 0
    /\ Hardware[0] # last.hw[0]

\* C18: a speed write of s in 1..10 stores s and leaves the mode alone; a
\* running effect is stopped and started again, active with its timer armed
\* one interval ahead and its phase at zero; in static mode no timer is armed
\* and no hardware write is made; the new speed is in the state file,
\* provided the file could be written.
SpeedWritten == Succeeded("animation_speed_set")
SpeedStored ==
    /\ animation_speed = kstrtoul(last.buf, 10).val
    /\ animation_speed \in ANIMATION_SPEED_MIN .. ANIMATION_SPEED_MAX
    /\ current_animation = last.before.mode
    /\ last.was_active =>
           /\ animation_active
           /\ timer_pending
           /\ timer_expires = jiffies + msecs_to_jiffies(ANIMATION_TIMER_INTERVAL_MS)
           /\ animation_start_time = jiffies
    /\ last.before.mode = ANIMATION_STATIC =>
           /\ ~animation_active
           /\ ~timer_pending
           /\ last.calls = 0
           /\ Hardware = last.hw
C18_SetSpeed ==
    SpeedWritten =>
        /\ SpeedStored
        /\ last.fault # "storage" => disk = AnimationState
\* the claim as stated: the new speed is persisted in every case
C18_SetSpeedAlwaysPersisted ==
    SpeedWritten =>
        /\ SpeedStored
        /\ disk.present
        /\ disk.speed = animation_speed
\* the speed of an effect that had run for a while was changed
C18_Witness ==
    /\ SpeedWritten
    /\ last.was_active
    /\ animation_speed = ANIMATION_SPEED_MAX
    /\ last.before.speed # ANIMATION_SPEED_MAX
    /\ jiffies >= 100
    /\ disk = AnimationState

\* C19: in disco mode at brightness 100, for every speed in 1..10, with the
\* cycle 300 ms / speed long: the frame computed at elapsed = cycle / 4 shows
\* (255,0,0) on zone 0 and (0,0,255) on zone 2, the frame computed at
\* elapsed = cycle * 3 / 4 shows every zone dark, and in general a frame in
\* the first half of a cycle shows the four fixed colors and a frame in the
\* second half shows every zone dark.
DiscoFrame ==
    /\ last.op = "work"
    /\ current_animation = ANIMATION_DISCO
    /\ global_brightness = 100
DiscoCycle == msecs_to_jiffies(300 \div animation_speed)
Elapsed == jiffies - animation_start_time
DiscoColors ==
    (0 :> RGB(255, 0, 0)) @@ (1 :> RGB(0, 255, 0)) @@ (2 :> RGB(0, 0, 255))
        @@ (3 :> RGB(255, 0, 255))
C19_DiscoStrobe ==
    DiscoFrame =>
        LET pos == Elapsed % DiscoCycle
        IN  /\ Elapsed = DiscoCycle \div 4 =>
                   Hardware[0] = RGB(255, 0, 0) /\ Hardware[2] = RGB(0, 0, 255)
            /\ Elapsed = (DiscoCycle * 3) \div 4 => Hardware = AllBlack
            /\ 2 * pos + 1 < DiscoCycle => Hardware = DiscoColors
            /\ 2 * pos >= DiscoCycle => Hardware = AllBlack
\* at the highest speed a frame was computed a quarter into the first cycle
C19_Witness ==
    /\ DiscoFrame
    /\ animation_speed = ANIMATION_SPEED_MAX
    /\ Elapsed = DiscoCycle \div 4
    /\ Hardware[0] = RGB(255, 0, 0)
    /\ Hardware[1] = RGB(0, 255, 0)
\* at speed 7 a frame was computed three quarters into the first cycle
C19_WitnessDark ==
    /\ DiscoFrame
    /\ animation_speed = 7
    /\ Elapsed = (DiscoCycle * 3) \div 4
    /\ Hardware = AllBlack
    /\ last.hw # AllBlack

\* C20: parse_rgb accepts exactly the base-16 numerals with a value in
\* 0..0xFFFFFF; the color of value v has red = bits 16..23, green = bits
\* 8..15 and blue = bits 0..7 of v, so that writing red, green and blue as six
\* hex digits gives v again; a larger value or a text that is no numeral
\* fails with -EINVAL and leaves the zone's color as it was.
IsHexChar(ch) ==
    ch \in {"0", "1", "2", "3", "4", "5", "6", "7", "8", "9",
            "a", "b", "c", "d", "e", "f", "A", "B", "C", "D", "E", "F"}
HexCharValue(ch) ==
    CASE ch \in {"a", "A"} -> 10
      [] ch \in {"b", "B"} -> 11
      [] ch \in {"c", "C"} -> 12
      [] ch \in {"d", "D"} -> 13
      [] ch \in {"e", "E"} -> 14
      [] ch \in {"f", "F"} -> 15
      [] OTHER -> CHOOSE n \in 0 .. 9 : HexDigits[n + 1] = ch
\* the digits of a text: without a leading "+", without a "0x" that a digit
\* follows, without one final newline
DropSign(t) == IF t # << >> /\ Head(t) = "+" THEN Tail(t) ELSE t
DropRadix(t) ==
    IF Len(t) >= 3 /\ t[1] = "0" /\ t[2] \in {"x", "X"} /\ IsHexChar(t[3])
    THEN SubSeq(t, 3, Len(t)) ELSE t
DropNewline(t) ==
    IF t # << >> /\ t[Len(t)] = "\n" THEN SubSeq(t, 1, Len(t) - 1) ELSE t
DigitsOf(t) == DropNewline(DropRadix(DropSign(t)))
IsNumeral(t) ==
    DigitsOf(t) # << >> /\ \A i \in DOMAIN DigitsOf(t) : IsHexChar(DigitsOf(t)[i])
\* the value of a sequence of hex digits, from its last digit up
RECURSIVE HexValue(_)
HexValue(ds) ==
    IF ds = << >> THEN 0
    ELSE HexCharValue(ds[Len(ds)]) + 16 * HexValue(SubSeq(ds, 1, Len(ds) - 1))
\* red, green and blue written as six hex digits
HexText(c) ==
    << HexDigits[(c.red \div 16) + 1], HexDigits[(c.red % 16) + 1],
       HexDigits[(c.green \div 16) + 1], HexDigits[(c.green % 16) + 1],
       HexDigits[(c.blue \div 16) + 1], HexDigits[(c.blue % 16) + 1] >>
Parsed == last.op = "parse_rgb"
InRgbRange(t) == IsNumeral(t) /\ HexValue(DigitsOf(t)) <= 16777215
C20_ParseRoundTrip ==
    Parsed =>
        /\ last.ok <=> InRgbRange(last.buf)
        /\ last.ok =>
             LET v == HexValue(DigitsOf(last.buf))
                 c == zone_data[last.z]
             IN  /\ last.ret = 0
                 /\ c.red = (v \div 65536) % 256
                 /\ c.green = (v \div 256) % 256
                 /\ c.blue = v % 256
                 /\ HexValue(HexText(c)) = v
                 /\ parse_rgb(HexText(c)).colors = c
        /\ ~last.ok => last.ret = -EINVAL /\ zone_data = BootColors
\* "0xa0Fa0F\n" was parsed into three different channel values
C20_Witness ==
    /\ Parsed
    /\ last.ok
    /\ Len(last.buf) = 9
    /\ zone_data[last.z] = RGB(160, 250, 15)
\* a numeral of seven digits above 0xFFFFFF was refused
C20_WitnessTooLarge ==
    /\ Parsed
    /\ ~last.ok
    /\ IsNumeral(last.buf)
    /\ Len(DigitsOf(last.buf)) = 7

\* C21: for every brightness p in 0..100 and every channel value c in 0..255
\* the scaled channel is c * p / 100 truncated, each of red, green and blue
\* on its own; it is never above c, it is c at p = 100 and 0 at p = 0.
Truncated(r, c, p) == 100 * r <= c * p /\ c * p < 100 * (r + 1)
ChannelScaled(r, c) ==
    /\ Truncated(r, c, global_brightness)
    /\ r \in Byte
    /\ r <= c
    /\ global_brightness = 100 => r = c
    /\ global_brightness = 0 => r = 0
Restored == last.op = "stop_animation"
C21_ApplyBrightness ==
    Restored =>
        \A z \in Zones :
            /\ ChannelScaled(zone_data[z].red, original_colors[z].red)
            /\ ChannelScaled(zone_data[z].green, original_colors[z].green)
            /\ ChannelScaled(zone_data[z].blue, original_colors[z].blue)
            /\ Hardware[z] = zone_data[z]
\* 255 at 33 percent became 84, the other channels of the zone something else
C21_Witness ==
    /\ Restored
    /\ global_brightness = 33
    /\ original_colors[0].red = 255
    /\ zone_data[0].red = 84
    /\ zone_data[0].green # 84
    /\ zone_data[0].blue # 84

\* C22: a write to the mode endpoint is accepted only if its text is one of
\* the ten mode names, with or without a final newline; every other text, a
\* mode name followed by more characters included, is refused with -EINVAL
\* and changes nothing.
ExactModeName(buf) ==
    \E k \in 1 .. ANIMATION_COUNT : buf = mode_names[k] \/ buf = mode_names[k] \o NL
ModeWrite == last.op = "animation_mode_set"
C22_ExactNamesOnly ==
    ModeWrite =>
        /\ last.ok => ExactModeName(last.buf)
        /\ ~ExactModeName(last.buf) =>
               /\ last.ret = -EINVAL
               /\ last.calls = 0
               /\ AnimationState = last.before
               /\ Hardware = last.hw
\* "disco2" was written and the disco effect runs
C22_Witness ==
    /\ ModeWrite
    /\ last.ok
    /\ ~ExactModeName(last.buf)
    /\ last.before.mode # ANIMATION_DISCO
    /\ current_animation = ANIMATION_DISCO
    /\ animation_active

\* C23: every endpoint write that changes mode, speed, brightness or an
\* Original Color has disarmed the timer before its first assignment to
\* them: while a handler changes them the timer is not armed and no frame
\* computation is queued or running.
ChangingWrite ==
    /\ ops' = ops + 1
    /\ last'.op \in Endpoints
    /\ AnimationState' # AnimationState
C23_TimerDisarmedFirst ==
    [][ChangingWrite =>
          /\ ~AtFirstMutation(last'.op, Cur).pending
          /\ ~work_pending
          /\ work_pc = "idle"]_vars
\* a brightness write replaced Original Colors while the effect's timer
\* stayed armed
C23_Witness ==
    /\ Succeeded("brightness_set")
    /\ original_colors # last.before.colors
    /\ last.was_active
    /\ animation_active
    /\ timer_pending
\* a color was written to a zone while the effect's frame was being written
C23_WitnessWork ==
    /\ Succeeded("zone_set")
    /\ work_pc # "idle"

\* C24: when a write to the all endpoint ran while a frame of the effect it
\* interrupts was being computed or written, then once the handler and the
\* frame computation have finished, and no other command came, the hardware
\* shows the user's color * brightness / 100 on every zone.
\* (The one command of the run was an all write: the mode is static and the
\* four Original Colors are the color of the text.)
UserColor == ColorOf(Palette[2])
UserWroteAll ==
    /\ ops = 1
    /\ current_animation = ANIMATION_STATIC
    /\ \A z \in Zones : original_colors[z] = UserColor
Quiescent ==
    /\ ~timer_pending
    /\ timer_cb = "idle"
    /\ ~work_pending
    /\ work_pc = "idle"
C24_UserColorWins ==
    (UserWroteAll /\ Quiescent) =>
        \A z \in Zones : Hardware[z] = ScaleColor(UserColor, global_brightness)
\* the all write returned while the work item was between the GET and the
\* SET of a zone
C24_Witness ==
    /\ Succeeded("all_set")
    /\ last.was_active
    /\ UserWroteAll
    /\ work_pc = "set"

\* C25: a write of zone z to the hardware changes only zone z's three bytes
\* of the frame: every other zone keeps the color most recently written to
\* it, also when the writes of a command handler interleave with the writes
\* of the frame computation.
C25_WriteTouchesOneZone ==
    [][work_pc = "set" =>
          \A y \in Zones \ {work_zone} :
              HardwareColors(frame')[y] = HardwareColors(frame)[y]]_vars
\* the work item holds the frame it got before a handler wrote the zones
C25_Witness ==
    /\ work_pc = "set"
    /\ ops = 1
    /\ \E y \in Zones \ {work_zone} : HardwareColors(work_state)[y] # Hardware[y]

\* C26: the timer callback schedules one frame computation and arms the
\* timer 50 ms ahead exactly if an animation is active and the mode is not
\* static, and does no hardware I/O; so while an effect is active the timer
\* stays armed and a due timer leads to a frame computation, also after a
\* frame's hardware write failed; and once the mode is static for good, the
\* timer and the frame computation come to rest for good.
CallbackTested == timer_cb = "check" /\ timer_cb' # "check"
CallbackDecides ==
    [][CallbackTested =>
          /\ timer_cb' = "act"
                 <=> (animation_active /\ current_animation # ANIMATION_STATIC)
          /\ UNCHANGED << work_pending, timer_pending, timer_expires >>]_vars
CallbackSchedules ==
    [][(timer_cb = "act" /\ timer_cb' # "act") =>
          /\ work_pending'
          /\ timer_pending'
          /\ timer_expires' = jiffies + 50]_vars
CallbackDoesNoIO ==
    [][timer_cb' # timer_cb => UNCHANGED << frame, zone_data, faults >>]_vars
EffectRuns ==
    phase = "running" /\ animation_active /\ current_animation # ANIMATION_STATIC
TimerChainAlive == [](EffectRuns /\ timer_cb = "idle" => timer_pending)
\* (unless a mode write stops the effect or starts it afresh first)
FramesFollow ==
    (EffectRuns /\ TimerDue)
        ~> (work_pc = "get" \/ ~EffectRuns \/ last.op = "animation_mode_set")
ComesToRest == <>[](current_animation = ANIMATION_STATIC => Quiescent)
C26_TimerDrivesFrames ==
    /\ CallbackDecides
    /\ CallbackSchedules
    /\ CallbackDoesNoIO
    /\ TimerChainAlive
    /\ FramesFollow
    /\ ComesToRest
\* after a frame whose hardware write failed the effect's timer is armed and
\* due again
C26_Witness ==
    /\ EffectRuns
    /\ faults = 1
    /\ work_pc = "idle"
    /\ TimerDue
    /\ ticks = MaxTicks
\* the callback armed the timer although the mode had become static
C26_WitnessStray ==
    /\ current_animation = ANIMATION_STATIC
    /\ timer_pending

\* C27: the requested output length is mapped to a size class by steps:
\* class 1 up to 0, 2 up to 4, 3 up to 128, 4 up to 1024, 5 up to 4096; with
\* a length above 4096, or an input longer than 128 bytes, the query fails
\* without a transport call, and nothing is clamped.
Queried == last.op = "query"
SizeClass(n) ==
    IF n <= 0 THEN 1
    ELSE IF n <= 4 THEN 2
    ELSE IF n <= 128 THEN 3
    ELSE IF n <= 1024 THEN 4
    ELSE 5
C27_SizeClasses ==
    Queried =>
        IF last.outsize > 4096 \/ last.insize > 128
        THEN /\ ~last.called
             /\ last.ret < 0
             /\ work_state = CallerBuffer(last.outsize)
        ELSE /\ last.called
             /\ last.mid = SizeClass(last.outsize)
\* a query for 1025 bytes went to the transport in class 5
C27_Witness ==
    /\ Queried
    /\ last.outsize = 1025
    /\ last.called
    /\ last.mid = 5
\* a query for 4097 bytes was refused
C27_WitnessRefused ==
    /\ Queried
    /\ last.outsize = 4097
    /\ ~last.called

\* C28: for every response: an absent response and a response that is no
\* buffer give an error; a non-zero status code is returned and the caller's
\* buffer is left as it was; with status 0 and an output length above 0 the
\* call returns 0 with every byte of the caller's buffer defined, the first
\* min(output length, response length - 8) bytes copied from the payload
\* behind the 8-byte header and the rest 0, whatever the response's length.
Answered == Queried /\ last.called
AnswerHandled ==
    IF last.resp.kind # "buffer"
    THEN last.ret < 0 /\ work_state = CallerBuffer(last.outsize)
    ELSE IF last.ret # 0
    THEN work_state = CallerBuffer(last.outsize)
    ELSE last.outsize > 0 =>
           /\ ~last.crashed
           /\ DOMAIN work_state = 0 .. (last.outsize - 1)
           /\ \A i \in DOMAIN work_state :
                  work_state[i] =
                      IF i < last.resp.length - 8 THEN PayloadByte(8 + i) ELSE 0
StatusReturned ==
    (last.resp.kind = "buffer" /\ last.resp.length >= 8) =>
        last.ret = last.resp.code
C28_ResponseHandling == Answered => (AnswerHandled /\ StatusReturned)
\* the same, for the responses that hold at least the 8-byte header
C28_WholeHeader ==
    (Answered /\ last.resp.kind = "buffer" => last.resp.length >= 8)
        => C28_ResponseHandling
\* a response of 4 bytes, shorter than its header, was answered to a query
\* for 128 bytes and taken as status 0
C28_Witness ==
    /\ Answered
    /\ last.resp.kind = "buffer"
    /\ last.resp.length = 4
    /\ last.outsize = 128
    /\ last.ret = 0

\* C29: no timer firing and no frame computation, of any of the nine
\* effects, changes the mode, the speed, the brightness or an Original Color
\* (nor the active flag, the start time or the state file): only the zones'
\* colors, the hardware frame and the timer change.
FrameStep == last'.op \in {"frame", "work"}
C29_FramesKeepState ==
    [][FrameStep =>
          UNCHANGED << current_animation, animation_speed, global_brightness,
                       original_colors, animation_active, animation_start_time,
                       disk >>]_vars
\* the timer fired for the second time in the aurora effect and its frame
\* changed the hardware colors
C29_Witness ==
    /\ last.op = "frame"
    /\ current_animation = ANIMATION_AURORA
    /\ ticks = MaxTicks
    /\ Hardware # Scaled(original_colors)
    /\ timer_pending

\* C30: for every integer angle, reduced modulo 360 with negatives wrapped
\* into 0..359, simple_sin returns a value in [-100, 100] on four linear
\* segments: a*100/90 on [0,90), (180-a)*100/90 on [90,180),
\* -((a-180)*100/90) on [180,270) and -((360-a)*100/90) on [270,360); it is 0
\* at 0 and 180, 100 at 90, -100 at 270, and the value at a+180 is the
\* negated value at a.
Reduced(angle) == angle % 360
Segment(a) ==
    IF a < 90 THEN (a * 100) \div 90
    ELSE IF a < 180 THEN ((180 - a) * 100) \div 90
    ELSE IF a < 270 THEN 0 - (((a - 180) * 100) \div 90)
    ELSE 0 - (((360 - a) * 100) \div 90)
FixedValues(a, v) ==
    /\ a \in {0, 180} => v = 0
    /\ a = 90 => v = 100
    /\ a = 270 => v = 0 - 100
C30_SimpleSin ==
    last.op = "simple_sin" =>
        /\ last.value \in (0 - 100) .. 100
        /\ last.value = Segment(Reduced(last.angle))
        /\ FixedValues(Reduced(last.angle), last.value)
        /\ last.opposite = 0 - last.value
\* a negative angle in the third segment whose value is not a whole multiple:
\* -179 wraps to 181, (1*100)/90 = 1, negated
C30_Witness ==
    /\ last.op = "simple_sin"
    /\ last.angle = 0 - 179
    /\ last.value = 0 - 1
    /\ last.opposite = 1

\* C31: after fourzone_setup has succeeded and before the module is removed,
\* between handlers, animation_active is true exactly when current_animation
\* is not ANIMATION_STATIC, after any sequence of zone, all, brightness, mode
\* and speed writes.
C31_ActiveIffAnimated ==
    phase = "running" =>
        (animation_active <=> current_animation # ANIMATION_STATIC)
\* a zone write whose frame write failed ended a running effect
C31_Witness ==
    /\ phase = "running"
    /\ last.op = "zone_set"
    /\ last.was_active
    /\ last.fault = "transport"
    /\ ~last.ok
    /\ ~animation_active
    /\ current_animation = ANIMATION_STATIC
\* a speed write restarted a running effect
C31_WitnessRestart ==
    /\ phase = "running"
    /\ Succeeded("animation_speed_set")
    /\ last.was_active
    /\ animation_active
    /\ current_animation # ANIMATION_STATIC

\* C32: every failing write to the zone, all, brightness, mode or speed
\* endpoint returns a negative error code; a return value of zero or more
\* means the whole write succeeded and is the number of input bytes, whatever
\* status the firmware gave to the GET or the SET step.
EndpointWrites ==
    {"zone_set", "all_set", "brightness_set", "animation_mode_set",
     "animation_speed_set"}
EndpointWrite == last.op \in EndpointWrites
C32_FailuresAreNegative ==
    EndpointWrite =>
        /\ ~last.ok => last.ret < 0
        /\ last.ret >= 0 => last.ok /\ last.ret = Len(last.buf)
\* the part that holds: a handler that reaches its end returns the number of
\* input bytes, and one that does not returns a value other than zero
C32_SuccessReturnsCount ==
    EndpointWrite =>
        /\ last.ok => last.ret = Len(last.buf)
        /\ ~last.ok => last.ret # 0
\* a zone write whose SET step the firmware refused returned a positive value
C32_Witness ==
    /\ last.op = "zone_set"
    /\ last.fault = "transport"
    /\ ~last.ok
    /\ last.ret > 0
    /\ Hardware = last.hw

\* C33: in static mode the animation driver and the basic driver, given the
\* same zone, all and brightness writes and the same firmware answers from
\* the same frame, have after each operation the same hardware frame, the
\* same Original Colors and the same Global Brightness.
SameAsBasic ==
    /\ frame = last.basic.frame
    /\ original_colors = last.basic.orig
    /\ global_brightness = last.basic.brightness
C33_DriversAgree ==
    phase = "running" => SameAsBasic
\* the part that holds: the two agree as long as every transport call has
\* succeeded and no color was written to a single zone
C33_AgreeWithoutZoneWrites ==
    (phase = "running" /\ faults = 0 /\ ~last.zoned) => SameAsBasic
\* a zone write that both drivers reported as complete left them with
\* different Original Colors and different frames
C33_Witness ==
    /\ phase = "running"
    /\ Succeeded("zone_set")
    /\ last.basic.ok
    /\ last.basic.ret = last.ret
    /\ faults = 0
    /\ original_colors # last.basic.orig
    /\ frame # last.basic.frame

\* C34: for every effect, speed 1..10, elapsed time, brightness 0..100 and
\* Original Colors, the cycle length is at least one tick, every intensity
\* is in 0..100, and every value a generator, hsv_to_rgb (s, v in 0..100, h
\* in 0..359) or the brightness scaling assigns to an 8-bit channel is in
\* 0..255, so the channel holds the value computed.
InByte(values) == \A i \in DOMAIN values : values[i] \in Byte
C34_NoWrapAround ==
    /\ last.op = "effect" =>
           /\ last.math.cycle_time >= 1
           /\ last.math.intensity \subseteq 0 .. 100
           /\ \A z \in Zones :
                  /\ InByte(last.math.value[z])
                  /\ Channels(last.colors[z]) = last.math.value[z]
    /\ last.op = "hsv" =>
           /\ InByte(last.value)
           /\ Channels(last.color) = last.value
    /\ last.op = "scale" =>
           /\ last.value \in Byte
           /\ last.color = RGB(last.value, last.value, last.value)
\* the candle at full speed, on the last tick of its 10-tick cycle: zone 0
\* has the highest intensity the effect reaches, 96, and red is 244
C34_Witness ==
    /\ last.op = "effect"
    /\ last.mode = ANIMATION_CANDLE
    /\ last.speed = ANIMATION_SPEED_MAX
    /\ last.math.cycle_time = 10
    /\ last.elapsed = 9
    /\ 96 \in last.math.intensity
    /\ last.colors[0].red = 244
\* breathing of a white zone at the top of its sine: intensity 100, 255 kept
C34_WitnessFull ==
    /\ last.op = "effect"
    /\ last.mode = ANIMATION_BREATHING
    /\ last.math.intensity = {100}
    /\ last.colors[0] = RGB(255, 255, 255)

=============================================================================
